---- MODULE Spec2Model ----
(***************************************************************************)
(* Model of the Node wrapper's request/response engine (BaseClient.ts):    *)
(* the callback table with its free-slot stack, the buffered write path,   *)
(* the length-delimited read path, close(), and the socket and the core    *)
(* process on the other end of it.                                         *)
(***************************************************************************)
EXTENDS Integers, Sequences, FiniteSets, TLC

(***************************************************************************)
(* Bounds of the model.                                                    *)
(***************************************************************************)
MaxRequests == 2     \* user requests submitted through createWritePromise
MaxStrayFrames == 1  \* frames the core sends that answer no written request
LongPad == 126       \* filler of a long error message: a body of 128 bytes or more

(***************************************************************************)
(* Protobuf wire format (protobufjs Reader/Writer).                        *)
(***************************************************************************)
VarintBase == 128    \* a varint byte carries 7 bits; the 8th bit continues

Min(a, b) == IF a < b THEN a ELSE b

RECURSIVE Varint(_)
\* Writer.uint32: little-endian base-128 digits, high bit set on all but the last
Varint(n) ==
    IF n < VarintBase THEN <<n>>
    ELSE <<VarintBase + (n % VarintBase)>> \o Varint(n \div VarintBase)

RECURSIVE Pow(_, _)
Pow(b, e) == IF e = 0 THEN 1 ELSE b * Pow(b, e - 1)

RECURSIVE ReadVarintFrom(_, _, _, _)
\* Reader.uint32 at 0-based position pos, having consumed i bytes with value acc.
\* A byte beyond the end of the buffer reads as undefined: it adds nothing and
\* is not "< 128", so the reader runs on to the fifth byte and the final bounds
\* test throws RangeError.
ReadVarintFrom(buf, pos, i, acc) ==
    IF i = 5
    THEN IF pos + 10 > Len(buf)
         THEN [err |-> "range", val |-> 0, pos |-> Len(buf)]
         ELSE [err |-> "none", val |-> acc, pos |-> pos + 10]
    ELSE IF pos + i >= Len(buf)
         THEN ReadVarintFrom(buf, pos, i + 1, acc)
         ELSE LET b == buf[pos + i + 1]
                  digit == IF i = 4 THEN b % 16 ELSE b % VarintBase
                  acc2 == acc + digit * Pow(VarintBase, i)
              IN IF b < VarintBase
                 THEN [err |-> "none", val |-> acc2, pos |-> pos + i + 1]
                 ELSE ReadVarintFrom(buf, pos, i + 1, acc2)

ReadUint32(buf, pos) == ReadVarintFrom(buf, pos, 0, 0)

\* Reader.bytes/string: a length, then that many bytes; RangeError if they
\* are not all in the buffer
ReadString(buf, pos) ==
    LET l == ReadUint32(buf, pos)
    IN IF l.err # "none" THEN [err |-> l.err, val |-> <<>>, pos |-> l.pos]
       ELSE IF l.pos + l.val > Len(buf)
            THEN [err |-> "range", val |-> <<>>, pos |-> l.pos]
            ELSE [err |-> "none",
                  val |-> SubSeq(buf, l.pos + 1, l.pos + l.val),
                  pos |-> l.pos + l.val]

RECURSIVE SkipVarint(_, _)
\* Reader.skip(): do { if (pos >= len) throw } while (buf[pos++] & 128)
SkipVarint(buf, pos) ==
    IF pos >= Len(buf) THEN [err |-> "range", pos |-> pos]
    ELSE IF buf[pos + 1] >= VarintBase THEN SkipVarint(buf, pos + 1)
         ELSE [err |-> "none", pos |-> pos + 1]

\* Reader.skip(n)
SkipBytes(buf, pos, n) ==
    IF pos + n > Len(buf) THEN [err |-> "range", pos |-> pos]
    ELSE [err |-> "none", pos |-> pos + n]

RECURSIVE SkipType(_, _, _)
\* Reader.skipType(wireType); wire types 6 and 7 throw a plain Error
SkipType(buf, pos, wt) ==
    CASE wt = 0 -> SkipVarint(buf, pos)
      [] wt = 1 -> SkipBytes(buf, pos, 8)
      [] wt = 2 -> LET l == ReadUint32(buf, pos)
                   IN IF l.err # "none" THEN [err |-> l.err, pos |-> l.pos]
                      ELSE SkipBytes(buf, l.pos, l.val)
      [] wt = 3 -> LET t == ReadUint32(buf, pos)
                   IN IF t.err # "none" THEN [err |-> t.err, pos |-> t.pos]
                      ELSE IF t.val % 8 = 4 THEN [err |-> "none", pos |-> t.pos]
                      ELSE LET s == SkipType(buf, t.pos, t.val % 8)
                           IN IF s.err # "none" THEN s
                              ELSE SkipType(buf, s.pos, 3)
      [] wt = 5 -> SkipBytes(buf, pos, 4)
      [] OTHER -> [err |-> "invalid", pos |-> pos]

(***************************************************************************)
(* response.proto: the Response envelope and its decoder.  An absent       *)
(* (null) field is the empty sequence, a present one a one-element         *)
(* sequence.                                                               *)
(***************************************************************************)
Unspecified == 0
ExecAbort == 1
Timeout == 2
Disconnect == 3
RequestErrorTypes == {Unspecified, ExecAbort, Timeout, Disconnect}
ConstantOK == 0

EmptyRequestError == [type |-> Unspecified, message |-> <<>>]
EmptyResponse ==
    [callbackIdx |-> 0, respPointer |-> <<>>, constantResponse |-> <<>>,
     requestError |-> <<>>, closingError |-> <<>>]

RECURSIVE DecodeRequestError(_, _, _, _)
\* RequestError.decode(reader, length): fields until pos reaches end
DecodeRequestError(buf, pos, end, msg) ==
    IF pos >= end THEN [err |-> "none", val |-> msg, pos |-> pos]
    ELSE LET t == ReadUint32(buf, pos)
         IN IF t.err # "none" THEN [err |-> t.err, val |-> msg, pos |-> t.pos]
            ELSE CASE t.val \div 8 = 1 ->
                        LET v == ReadUint32(buf, t.pos)
                        IN IF v.err # "none"
                           THEN [err |-> v.err, val |-> msg, pos |-> v.pos]
                           ELSE DecodeRequestError(buf, v.pos, end,
                                    [msg EXCEPT !.type = v.val])
                   [] t.val \div 8 = 2 ->
                        LET v == ReadString(buf, t.pos)
                        IN IF v.err # "none"
                           THEN [err |-> v.err, val |-> msg, pos |-> v.pos]
                           ELSE DecodeRequestError(buf, v.pos, end,
                                    [msg EXCEPT !.message = v.val])
                   [] OTHER ->
                        LET s == SkipType(buf, t.pos, t.val % 8)
                        IN IF s.err # "none"
                           THEN [err |-> s.err, val |-> msg, pos |-> s.pos]
                           ELSE DecodeRequestError(buf, s.pos, end, msg)

RECURSIVE DecodeResponse(_, _, _, _)
\* Response.decode(reader, length)
DecodeResponse(buf, pos, end, msg) ==
    IF pos >= end THEN [err |-> "none", val |-> msg, pos |-> pos]
    ELSE LET t == ReadUint32(buf, pos)
         IN IF t.err # "none" THEN [err |-> t.err, val |-> msg, pos |-> t.pos]
            ELSE CASE t.val \div 8 = 1 ->
                        LET v == ReadUint32(buf, t.pos)
                        IN IF v.err # "none"
                           THEN [err |-> v.err, val |-> msg, pos |-> v.pos]
                           ELSE DecodeResponse(buf, v.pos, end,
                                    [msg EXCEPT !.callbackIdx = v.val])
                   [] t.val \div 8 = 2 ->
                        LET v == ReadUint32(buf, t.pos)
                        IN IF v.err # "none"
                           THEN [err |-> v.err, val |-> msg, pos |-> v.pos]
                           ELSE DecodeResponse(buf, v.pos, end,
                                    [msg EXCEPT !.respPointer = <<v.val>>])
                   [] t.val \div 8 = 3 ->
                        LET v == ReadUint32(buf, t.pos)
                        IN IF v.err # "none"
                           THEN [err |-> v.err, val |-> msg, pos |-> v.pos]
                           ELSE DecodeResponse(buf, v.pos, end,
                                    [msg EXCEPT !.constantResponse = <<v.val>>])
                   [] t.val \div 8 = 4 ->
                        LET l == ReadUint32(buf, t.pos)
                        IN IF l.err # "none"
                           THEN [err |-> l.err, val |-> msg, pos |-> l.pos]
                           ELSE LET v == DecodeRequestError(buf, l.pos,
                                             l.pos + l.val, EmptyRequestError)
                                IN IF v.err # "none"
                                   THEN [err |-> v.err, val |-> msg, pos |-> v.pos]
                                   ELSE DecodeResponse(buf, v.pos, end,
                                            [msg EXCEPT !.requestError = <<v.val>>])
                   [] t.val \div 8 = 5 ->
                        LET v == ReadString(buf, t.pos)
                        IN IF v.err # "none"
                           THEN [err |-> v.err, val |-> msg, pos |-> v.pos]
                           ELSE DecodeResponse(buf, v.pos, end,
                                    [msg EXCEPT !.closingError = <<v.val>>])
                   [] OTHER ->
                        LET s == SkipType(buf, t.pos, t.val % 8)
                        IN IF s.err # "none"
                           THEN [err |-> s.err, val |-> msg, pos |-> s.pos]
                           ELSE DecodeResponse(buf, s.pos, end, msg)

\* Response.decodeDelimited(reader): decode(reader, reader.uint32())
decodeDelimited(buf, pos) ==
    LET l == ReadUint32(buf, pos)
    IN IF l.err # "none" THEN [err |-> l.err, val |-> EmptyResponse, pos |-> l.pos]
       ELSE DecodeResponse(buf, l.pos, l.pos + l.val, EmptyResponse)

\* RequestError.encode: proto3 omits a default scalar (type 0, empty message)
EncodeRequestError(e) ==
    (IF e.type # 0 THEN <<8>> \o Varint(e.type) ELSE <<>>)
    \o (IF e.message # <<>>
        THEN <<18>> \o Varint(Len(e.message)) \o e.message ELSE <<>>)

\* Response.encode: callback_idx omitted when 0; the oneof member always written
EncodeResponse(m) ==
    (IF m.callbackIdx # 0 THEN <<8>> \o Varint(m.callbackIdx) ELSE <<>>)
    \o (IF m.respPointer # <<>> THEN <<16>> \o Varint(m.respPointer[1]) ELSE <<>>)
    \o (IF m.constantResponse # <<>>
        THEN <<24>> \o Varint(m.constantResponse[1]) ELSE <<>>)
    \o (IF m.requestError # <<>>
        THEN LET e == EncodeRequestError(m.requestError[1])
             IN <<34>> \o Varint(Len(e)) \o e
        ELSE <<>>)
    \o (IF m.closingError # <<>>
        THEN <<42>> \o Varint(Len(m.closingError[1])) \o m.closingError[1]
        ELSE <<>>)

\* Response.encodeDelimited: the body's length as a varint, then the body
EncodeDelimited(m) ==
    LET body == EncodeResponse(m) IN Varint(Len(body)) \o body

(***************************************************************************)
(* State.                                                                  *)
(***************************************************************************)
VARIABLES
    promiseCallbackFunctions, \* array of [resolve, reject]; entry = its promise
    availableCallbackSlots,   \* stack of freed callback indices (top = last)
    requestWriter,            \* BufferWriter: encoded requests not yet written
    writeInProgress,
    remainingReadData,        \* <<>> when undefined
    isClosed,
    socket,                   \* net.Socket as the client sees it
    promises,                 \* promise id -> its state; 0 is connectToServer's
    callbackIndexOf,          \* history: the index each request was given
    nextRequest,              \* id the next accepted request gets
    thrown,                   \* the last createWritePromise threw ClosingError
    uncaught,                 \* a TypeError escaped the "data" handler
    orphaned,                 \* a frame was dispatched whose callback_idx
                              \* named no pending request
    wire,                     \* bytes from the core not yet delivered
    core,                     \* the core process behind the socket
    trace,                    \* history kept when trace.on: frames the core
                              \* sent, frames handleReadData decoded
    benchmark                 \* node_benchmark.ts: its module variables and
                              \* the arguments and tasks of create_bench_tasks

vars == <<promiseCallbackFunctions, availableCallbackSlots, requestWriter,
          writeInProgress, remainingReadData, isClosed, socket, promises,
          callbackIndexOf, nextRequest, thrown, uncaught, orphaned, wire, core, trace,
          benchmark>>

\* node_benchmark.ts as its module body leaves it: started_tasks_counter = 0,
\* running_tasks = [], and create_bench_tasks not called
NoBenchmark ==
    [started_tasks_counter |-> 0,
     running_tasks |-> <<>>,
     action_latencies |-> <<>>,
     clients |-> 0,
     total_commands |-> 0,
     num_of_concurrent_tasks |-> 0,
     data |-> <<>>]

PromiseIds == 0..MaxRequests
NoPromise == [state |-> "none", kind |-> "", data |-> <<>>]
Pending == [state |-> "pending", kind |-> "", data |-> <<>>]
Resolved(kind, data) == [state |-> "resolved", kind |-> kind, data |-> data]
Rejected(kind, data) == [state |-> "rejected", kind |-> kind, data |-> data]

\* a promise is settled by the first resolve or reject only
Settle(ps, p, outcome) ==
    IF ps[p].state = "pending" THEN [ps EXCEPT ![p] = outcome] ELSE ps

DecodeFailedMsg == <<70>>   \* `Failed to decode the response: ${err}`
UserCloseMsg == <<85>>      \* an errorMessage passed to close() by the caller

\* mutant: the ExecAbort branch is missing
getRequestErrorClass_NoExecAbort(type) ==
    IF type = Disconnect THEN "ConnectionError"
    ELSE IF type = Timeout THEN "TimeoutError"
    ELSE "RequestError"

\* getRequestErrorClass
getRequestErrorClass(type) ==
    IF type = Disconnect THEN "ConnectionError"
    ELSE IF type = ExecAbort THEN "ExecAbortError"
    ELSE IF type = Timeout THEN "TimeoutError"
    ELSE IF type = Unspecified THEN "RequestError"
    ELSE "RequestError"

(***************************************************************************)
(* The methods of BaseClient operate on a record c holding the fields they *)
(* read and write; an action copies the record's fields into the primed    *)
(* variables.                                                              *)
(***************************************************************************)
Client ==
    [promiseCallbackFunctions |-> promiseCallbackFunctions,
     availableCallbackSlots |-> availableCallbackSlots,
     requestWriter |-> requestWriter,
     writeInProgress |-> writeInProgress,
     remainingReadData |-> remainingReadData,
     isClosed |-> isClosed,
     socket |-> socket,
     promises |-> promises,
     callbackIndexOf |-> callbackIndexOf,
     uncaught |-> uncaught,
     orphaned |-> orphaned,
     dispatched |-> trace.dispatched]

Install(c) ==
    /\ promiseCallbackFunctions' = c.promiseCallbackFunctions
    /\ availableCallbackSlots' = c.availableCallbackSlots
    /\ requestWriter' = c.requestWriter
    /\ writeInProgress' = c.writeInProgress
    /\ remainingReadData' = c.remainingReadData
    /\ isClosed' = c.isClosed
    /\ socket' = c.socket
    /\ promises' = c.promises
    /\ callbackIndexOf' = c.callbackIndexOf
    /\ uncaught' = c.uncaught
    /\ orphaned' = c.orphaned
    /\ trace' = [trace EXCEPT !.dispatched = c.dispatched]
    /\ benchmark' = benchmark

RECURSIVE RejectAll(_, _, _)
\* promiseCallbackFunctions.forEach(([, reject]) => reject(new ClosingError(msg)))
RejectAll(ps, table, msg) ==
    IF table = <<>> THEN ps
    ELSE RejectAll(Settle(ps, Head(table), Rejected("ClosingError", msg)),
                   Tail(table), msg)

\* socket.end(): half-closes the socket; later calls change nothing
SocketEnd(s) == [s EXCEPT !.ended = TRUE]

\* mutant: close() that leaves the open promises alone
close_KeepPending(c, errorMessage) ==
    [c EXCEPT !.isClosed = TRUE, !.socket = SocketEnd(c.socket)]

\* mutant: close() also returns every callback index to the free stack
close_ReleaseSlots(c, errorMessage) ==
    [c EXCEPT !.isClosed = TRUE,
              !.promises = RejectAll(c.promises, c.promiseCallbackFunctions,
                                     errorMessage),
              !.availableCallbackSlots =
                  [i \in 1..Len(c.promiseCallbackFunctions) |-> i - 1],
              !.socket = SocketEnd(c.socket)]

\* mutant: close() rejects every registered promise again, settled or not
close_Overwrite(c, errorMessage) ==
    [c EXCEPT !.isClosed = TRUE,
              !.promises = [p \in PromiseIds |->
                               IF \E i \in DOMAIN c.promiseCallbackFunctions :
                                      c.promiseCallbackFunctions[i] = p
                               THEN Rejected("ClosingError", errorMessage)
                               ELSE c.promises[p]],
              !.socket = SocketEnd(c.socket)]

\* close(errorMessage)
close(c, errorMessage) ==
    [c EXCEPT !.isClosed = TRUE,
              !.promises = RejectAll(c.promises, c.promiseCallbackFunctions,
                                     errorMessage),
              !.socket = SocketEnd(c.socket)]

\* mutant: responses matched by position, the oldest entry first
CallbackEntry_Oldest(c, message) ==
    c.promiseCallbackFunctions[1]

\* this.promiseCallbackFunctions[message.callbackIdx]
CallbackEntry(c, message) ==
    c.promiseCallbackFunctions[message.callbackIdx + 1]

\* mutant: a closing error fails only the request the frame names
OnClosingError_NamedOnly(c, message) ==
    IF message.callbackIdx >= Len(c.promiseCallbackFunctions) THEN c
    ELSE [c EXCEPT !.promises =
              Settle(c.promises,
                     c.promiseCallbackFunctions[message.callbackIdx + 1],
                     Rejected("ClosingError", message.closingError[1]))]

\* a frame with a closing error: this.close(message.closingError)
OnClosingError(c, message) == close(c, message.closingError[1])

\* mutant: the index of a dispatched frame is not put on the free stack
Dispatch_NoRelease(c, message) ==
    IF message.closingError # <<>>
    THEN [client |-> OnClosingError(c, message), continue |-> FALSE]
    ELSE IF message.callbackIdx >= Len(c.promiseCallbackFunctions)
    THEN [client |-> [c EXCEPT !.uncaught = TRUE, !.orphaned = TRUE],
          continue |-> FALSE]
    ELSE LET p == CallbackEntry(c, message)
             outcome ==
                 IF message.requestError # <<>>
                 THEN Rejected(getRequestErrorClass(message.requestError[1].type),
                               message.requestError[1].message)
                 ELSE IF message.respPointer # <<>>
                 THEN Resolved("value", message.respPointer)
                 ELSE IF message.constantResponse = <<ConstantOK>>
                 THEN Resolved("OK", <<>>)
                 ELSE Resolved("null", <<>>)
         IN [client |-> [c EXCEPT !.promises = Settle(c.promises, p, outcome)],
             continue |-> TRUE]

\* mutant: the constant OK is not told from a frame without payload
Dispatch_OkAsNull(c, message) ==
    IF message.closingError # <<>>
    THEN [client |-> OnClosingError(c, message), continue |-> FALSE]
    ELSE IF message.callbackIdx >= Len(c.promiseCallbackFunctions)
    THEN [client |-> [c EXCEPT !.uncaught = TRUE, !.orphaned = TRUE],
          continue |-> FALSE]
    ELSE LET p == CallbackEntry(c, message)
             c1 == [c EXCEPT !.availableCallbackSlots =
                                 Append(c.availableCallbackSlots,
                                        message.callbackIdx),
                             !.orphaned = c.orphaned
                                          \/ c.promises[p].state # "pending"]
             outcome ==
                 IF message.requestError # <<>>
                 THEN Rejected(getRequestErrorClass(message.requestError[1].type),
                               message.requestError[1].message)
                 ELSE IF message.respPointer # <<>>
                 THEN Resolved("value", message.respPointer)
                 ELSE Resolved("null", <<>>)
         IN [client |-> [c1 EXCEPT !.promises = Settle(c.promises, p, outcome)],
             continue |-> TRUE]

\* the body of the while loop after a frame was decoded (lines 235-265);
\* returns the client and whether the loop goes on
Dispatch(c, message) ==
    IF message.closingError # <<>>
    THEN [client |-> OnClosingError(c, message), continue |-> FALSE]
    ELSE IF message.callbackIdx >= Len(c.promiseCallbackFunctions)
    THEN \* destructuring undefined throws TypeError out of the handler
         [client |-> [c EXCEPT !.uncaught = TRUE, !.orphaned = TRUE],
          continue |-> FALSE]
    ELSE LET p == CallbackEntry(c, message)
             c1 == [c EXCEPT !.availableCallbackSlots =
                                 Append(c.availableCallbackSlots,
                                        message.callbackIdx),
                             !.orphaned = c.orphaned
                                          \/ c.promises[p].state # "pending"]
             outcome ==
                 IF message.requestError # <<>>
                 THEN Rejected(getRequestErrorClass(message.requestError[1].type),
                               message.requestError[1].message)
                 ELSE IF message.respPointer # <<>>
                 THEN Resolved("value", message.respPointer)
                 ELSE IF message.constantResponse = <<ConstantOK>>
                 THEN Resolved("OK", <<>>)
                 ELSE Resolved("null", <<>>)
         IN [client |-> [c1 EXCEPT !.promises = Settle(c.promises, p, outcome)],
             continue |-> TRUE]

\* the history of decoded frames, kept when the trace is on
Record(c, message) ==
    IF trace.on THEN [c EXCEPT !.dispatched = Append(c.dispatched, message)]
    ELSE c

RECURSIVE ReadLoop_FailureIsPartial(_, _, _)
\* mutant: every decoding error is taken for a partial frame
ReadLoop_FailureIsPartial(c, buf, pos) ==
    IF pos >= Len(buf)
    THEN [c EXCEPT !.remainingReadData = <<>>]
    ELSE LET lastPos == pos
             d == decodeDelimited(buf, pos)
         IN IF d.err # "none"
            THEN [c EXCEPT !.remainingReadData = SubSeq(buf, lastPos + 1, Len(buf))]
            ELSE LET r == Dispatch(Record(c, d.val), d.val)
                 IN IF r.continue
                    THEN ReadLoop_FailureIsPartial(r.client, buf, d.pos)
                    ELSE r.client

RECURSIVE ReadLoop_KeepsBuffer(_, _, _)
\* mutant: at a partial frame the whole buffer is kept, buf.slice(0)
ReadLoop_KeepsBuffer(c, buf, pos) ==
    IF pos >= Len(buf)
    THEN [c EXCEPT !.remainingReadData = <<>>]
    ELSE LET d == decodeDelimited(buf, pos)
         IN IF d.err = "range"
            THEN [c EXCEPT !.remainingReadData = buf]
            ELSE IF d.err # "none"
            THEN close(c, DecodeFailedMsg)
            ELSE LET r == Dispatch(Record(c, d.val), d.val)
                 IN IF r.continue THEN ReadLoop_KeepsBuffer(r.client, buf, d.pos)
                    ELSE r.client

RECURSIVE ReadLoop(_, _, _)
\* while (reader.pos < reader.len) { ... } of handleReadData
ReadLoop(c, buf, pos) ==
    IF pos >= Len(buf)
    THEN [c EXCEPT !.remainingReadData = <<>>]
    ELSE LET lastPos == pos
             d == decodeDelimited(buf, pos)
         IN IF d.err = "range"
            THEN [c EXCEPT !.remainingReadData = SubSeq(buf, lastPos + 1, Len(buf))]
            ELSE IF d.err # "none"
            THEN close(c, DecodeFailedMsg)
            ELSE LET r == Dispatch(Record(c, d.val), d.val)
                 IN IF r.continue THEN ReadLoop(r.client, buf, d.pos)
                    ELSE r.client

\* mutant: the bytes kept from the last chunk are not put in front
handleReadData_NoConcat(c, data) ==
    ReadLoop(c, data, 0)

\* handleReadData(data)
handleReadData(c, data) ==
    ReadLoop(c, c.remainingReadData \o data, 0)

\* mutant: pop() || length, which takes index 0 for no index
getCallbackIndex_OrFalsy(c) ==
    IF c.availableCallbackSlots # <<>>
       /\ c.availableCallbackSlots[Len(c.availableCallbackSlots)] # 0
    THEN c.availableCallbackSlots[Len(c.availableCallbackSlots)]
    ELSE Len(c.promiseCallbackFunctions)

\* getCallbackIndex
getCallbackIndex(c) ==
    IF c.availableCallbackSlots # <<>>
    THEN c.availableCallbackSlots[Len(c.availableCallbackSlots)]
    ELSE Len(c.promiseCallbackFunctions)

\* mutant: the top of the stack is read but not removed
PopSlot_Peek(c) == c

\* availableCallbackSlots.pop()
PopSlot(c) ==
    IF c.availableCallbackSlots # <<>>
    THEN [c EXCEPT !.availableCallbackSlots =
                       SubSeq(c.availableCallbackSlots, 1,
                              Len(c.availableCallbackSlots) - 1)]
    ELSE c

\* promiseCallbackFunctions[idx] = [resolve, reject]
SetCallback(table, idx, p) ==
    IF idx < Len(table) THEN [table EXCEPT ![idx + 1] = p] ELSE Append(table, p)

\* socket.write(requests, undefined, callback): the bytes go out unless the
\* socket was ended or destroyed; the callback is invoked later either way
SocketWrite(s, requests) ==
    [s EXCEPT !.outstanding = s.outstanding + 1,
              !.writes = Append(s.writes,
                                [requests |-> requests,
                                 refused |-> s.ended \/ s.destroyed])]

\* mutant: requestWriter.reset() forgotten
writeBufferedRequestsToSocket_NoReset(c) ==
    [c EXCEPT !.writeInProgress = TRUE,
              !.socket = SocketWrite(c.socket, c.requestWriter)]

\* writeBufferedRequestsToSocket, up to the call of socket.write
writeBufferedRequestsToSocket(c) ==
    [c EXCEPT !.writeInProgress = TRUE,
              !.requestWriter = <<>>,
              !.socket = SocketWrite(c.socket, c.requestWriter)]

\* mutant: a new request goes in front of the buffered ones
writeOrBufferRequest_Prepend(c, message) ==
    LET c1 == [c EXCEPT !.requestWriter = <<message>> \o c.requestWriter]
    IN IF c1.writeInProgress THEN c1
       ELSE writeBufferedRequestsToSocket(c1)

\* mutant: writeInProgress is not consulted
writeOrBufferRequest_NoCheck(c, message) ==
    writeBufferedRequestsToSocket(
        [c EXCEPT !.requestWriter = Append(c.requestWriter, message)])

\* mutant: the test of writeInProgress is inverted
writeOrBufferRequest_Inverted(c, message) ==
    LET c1 == [c EXCEPT !.requestWriter = Append(c.requestWriter, message)]
    IN IF c1.writeInProgress THEN writeBufferedRequestsToSocket(c1)
       ELSE c1

\* writeOrBufferRequest
writeOrBufferRequest(c, message) ==
    LET c1 == [c EXCEPT !.requestWriter = Append(c.requestWriter, message)]
    IN IF c1.writeInProgress THEN c1
       ELSE writeBufferedRequestsToSocket(c1)

\* mutant: the completion callback only clears writeInProgress
WriteCallback_NoFlush(c) == [c EXCEPT !.writeInProgress = FALSE]

\* the completion callback passed to socket.write
WriteCallback(c) ==
    IF c.requestWriter # <<>>
    THEN writeBufferedRequestsToSocket(c)
    ELSE [c EXCEPT !.writeInProgress = FALSE]

\* writeOrBufferRedisRequest: the RedisRequest for request r
writeOrBufferRedisRequest(c, callbackIdx, r) ==
    writeOrBufferRequest(c, [callbackIdx |-> callbackIdx, request |-> r])

\* mutant: the isClosed test is missing
createWritePromise_NoCheck(c, r) ==
    LET callbackIndex == getCallbackIndex(c)
        c1 == PopSlot(c)
        c2 == [c1 EXCEPT !.promiseCallbackFunctions =
                             SetCallback(c1.promiseCallbackFunctions,
                                         callbackIndex, r),
                         !.promises = [c1.promises EXCEPT ![r] = Pending],
                         !.callbackIndexOf =
                             [c1.callbackIndexOf EXCEPT ![r] = callbackIndex]]
    IN [threw |-> FALSE,
        client |-> writeOrBufferRedisRequest(c2, callbackIndex, r)]

\* mutant: the isClosed test comes after the callback was registered
createWritePromise_LateCheck(c, r) ==
    LET callbackIndex == getCallbackIndex(c)
        c1 == PopSlot(c)
        c2 == [c1 EXCEPT !.promiseCallbackFunctions =
                             SetCallback(c1.promiseCallbackFunctions,
                                         callbackIndex, r),
                         !.promises = [c1.promises EXCEPT ![r] = Pending],
                         !.callbackIndexOf =
                             [c1.callbackIndexOf EXCEPT ![r] = callbackIndex]]
    IN IF c.isClosed
       THEN [threw |-> TRUE, client |-> c2]
       ELSE [threw |-> FALSE,
             client |-> writeOrBufferRedisRequest(c2, callbackIndex, r)]

\* createWritePromise for request r: throws on a closed client, else runs
\* the executor of the new promise
createWritePromise(c, r) ==
    IF c.isClosed
    THEN [threw |-> TRUE, client |-> c]
    ELSE LET callbackIndex == getCallbackIndex(c)
             c1 == PopSlot(c)
             c2 == [c1 EXCEPT !.promiseCallbackFunctions =
                                  SetCallback(c1.promiseCallbackFunctions,
                                              callbackIndex, r),
                              !.promises = [c1.promises EXCEPT ![r] = Pending],
                              !.callbackIndexOf =
                                  [c1.callbackIndexOf EXCEPT ![r] = callbackIndex]]
         IN [threw |-> FALSE,
             client |-> writeOrBufferRedisRequest(c2, callbackIndex, r)]

\* connectToServer: the connection request is request 0, its promise promise 0
connectToServer(c) ==
    LET c1 == [c EXCEPT !.promiseCallbackFunctions =
                            SetCallback(c.promiseCallbackFunctions, 0, 0),
                        !.promises = [c.promises EXCEPT ![0] = Pending],
                        !.callbackIndexOf = [c.callbackIndexOf EXCEPT ![0] = 0]]
    IN writeOrBufferRequest(c1, [callbackIdx |-> 0, request |-> 0])

(***************************************************************************)
(* The caller's view: __createClientInternal awaits connectToServer's      *)
(* promise (promise 0) and returns the client only when it resolved.       *)
(***************************************************************************)
Constructed == promises[0].state = "none"
Connecting == promises[0].state = "pending"

\* mutant: the client is handed out without awaiting connectToServer
Ready_NotAwaited == promises[0].state \in {"pending", "resolved"}

Ready == promises[0].state = "resolved"
Failed == promises[0].state = "rejected"

(***************************************************************************)
(* The core process: it answers each request it has read from the socket   *)
(* with one Response frame carrying the request's callback_idx.  A payload *)
(* names the request it answers, so that a misdelivered payload shows.     *)
(***************************************************************************)
RECURSIVE Flatten(_)
Flatten(ss) == IF ss = <<>> THEN <<>> ELSE Head(ss) \o Flatten(Tail(ss))

\* the requests of every call of socket.write, in order
Written == Flatten([i \in 1..Len(socket.writes) |-> socket.writes[i].requests])

Repeat(x, n) == [i \in 1..n |-> x]

\* every request handed to the socket, in the order of the bytes
Transmitted ==
    Flatten([i \in 1..Len(socket.writes) |->
                IF socket.writes[i].refused THEN <<>>
                ELSE socket.writes[i].requests])

PointerOf(r) == 10 + r
\* the digit of r, followed in a long message by LongPad times 'x' (120)
MessageOf(r, long) == <<48 + r>> \o (IF long THEN Repeat(120, LongPad) ELSE <<>>)

Payload(kind, type, long) == [kind |-> kind, type |-> type, long |-> long]

\* what the core may answer in the full client model
CorePayloads ==
    {Payload("pointer", Unspecified, FALSE),
     Payload("requestError", Timeout, FALSE),
     Payload("requestError", Disconnect, FALSE),
     Payload("closingError", Unspecified, FALSE)}

\* the Response the core builds for request r under callback index idx
ResponseFor(idx, r, pl) ==
    [callbackIdx |-> idx,
     respPointer |-> IF pl.kind = "pointer" THEN <<PointerOf(r)>> ELSE <<>>,
     constantResponse |-> IF pl.kind = "ok" THEN <<ConstantOK>> ELSE <<>>,
     requestError |-> IF pl.kind = "requestError"
                      THEN <<[type |-> pl.type, message |-> MessageOf(r, pl.long)]>>
                      ELSE <<>>,
     closingError |-> IF pl.kind = "closingError"
                      THEN <<MessageOf(r, pl.long)>> ELSE <<>>]

Readable == ~socket.destroyed /\ ~socket.peerEnded

\* the core puts frame m on the socket
CoreSend(m) ==
    /\ wire' = wire \o EncodeDelimited(m)
    /\ trace' = IF trace.on THEN [trace EXCEPT !.sent = Append(@, m)] ELSE trace

\* the core answers a request it has received and not yet answered, with one
\* of the given payloads
CoreAnswers(payloads) ==
    /\ Readable
    /\ \E i \in 1..Len(Transmitted), pl \in payloads :
         LET req == Transmitted[i] IN
         /\ req.request \notin core.answered
         /\ CoreSend(ResponseFor(req.callbackIdx, req.request, pl))
         /\ core' = [core EXCEPT !.answered = @ \cup {req.request}]
    /\ UNCHANGED <<benchmark, promiseCallbackFunctions, availableCallbackSlots,
                   requestWriter, writeInProgress, remainingReadData, isClosed,
                   socket, promises, callbackIndexOf, nextRequest, thrown,
                   uncaught, orphaned>>

CoreRespond == CoreAnswers(CorePayloads)

\* a core that answers every request with a value
CoreRespondValue == CoreAnswers({Payload("pointer", Unspecified, FALSE)})

\* the payload of a stray frame names request 9, which nobody submitted
StrayPayload(idx) == ResponseFor(idx, 9, Payload("pointer", Unspecified, FALSE))

\* a frame that answers no outstanding request: any callback index, also one
\* never allocated or one already answered
CoreStray ==
    /\ ~Constructed
    /\ Readable
    /\ core.strays < MaxStrayFrames
    /\ \E idx \in 0..MaxRequests :
         CoreSend(StrayPayload(idx))
    /\ core' = [core EXCEPT !.strays = @ + 1]
    /\ UNCHANGED <<benchmark, promiseCallbackFunctions, availableCallbackSlots,
                   requestWriter, writeInProgress, remainingReadData, isClosed,
                   socket, promises, callbackIndexOf, nextRequest, thrown,
                   uncaught, orphaned>>

(***************************************************************************)
(* Actions.                                                                *)
(***************************************************************************)
NewSocket ==
    [ended |-> FALSE, destroyed |-> FALSE, peerEnded |-> FALSE,
     outstanding |-> 0, writes |-> <<>>]

Init ==
    /\ benchmark = NoBenchmark
    /\ promiseCallbackFunctions = <<>>
    /\ availableCallbackSlots = <<>>
    /\ requestWriter = <<>>
    /\ writeInProgress = FALSE
    /\ remainingReadData = <<>>
    /\ isClosed = FALSE
    /\ socket = NewSocket
    /\ promises = [p \in PromiseIds |-> NoPromise]
    /\ callbackIndexOf = [p \in PromiseIds |-> -1]
    /\ nextRequest = 1
    /\ thrown = FALSE
    /\ uncaught = FALSE
    /\ orphaned = FALSE
    /\ wire = <<>>
    /\ core = [answered |-> {}, strays |-> 0]
    /\ trace = [on |-> FALSE, sent |-> <<>>, dispatched |-> <<>>]

\* __createClientInternal up to its await: connection.connectToServer(options)
ConnectToServer ==
    /\ Constructed
    /\ Install(connectToServer(Client))
    /\ UNCHANGED <<nextRequest, thrown, wire, core>>

\* a command method of the returned client calls createWritePromise
Submit ==
    /\ Ready
    /\ isClosed \/ nextRequest <= MaxRequests
    /\ LET result == createWritePromise(Client, nextRequest)
       IN /\ Install(result.client)
          /\ thrown' = result.threw
          /\ nextRequest' = IF result.threw THEN nextRequest ELSE nextRequest + 1
    /\ UNCHANGED <<wire, core>>

\* the socket invokes the completion callback of an outstanding write
WriteComplete ==
    /\ socket.outstanding > 0
    /\ Install(WriteCallback(
           [Client EXCEPT !.socket.outstanding = socket.outstanding - 1]))
    /\ UNCHANGED <<nextRequest, thrown, wire, core>>

\* the socket emits "data" with the next k bytes from the core
DataEvent ==
    /\ Readable
    /\ \E k \in 1..Len(wire) :
         /\ Install(handleReadData(Client, SubSeq(wire, 1, k)))
         /\ wire' = SubSeq(wire, k + 1, Len(wire))
    /\ UNCHANGED <<nextRequest, thrown, core>>

\* the caller calls close(errorMessage?) on the returned client
Close ==
    /\ Ready
    /\ \E errorMessage \in {<<>>, UserCloseMsg} :
         Install(close(Client, errorMessage))
    /\ UNCHANGED <<nextRequest, thrown, wire, core>>

\* the socket emits "error": the stream is destroyed and the handler
\* registered by the constructor calls close().  Socket events are delivered
\* from the event loop, so none comes between the constructor and the call of
\* connectToServer that follows it in __createClientInternal
SocketError ==
    /\ ~Constructed
    /\ ~socket.destroyed
    /\ Install(close([Client EXCEPT !.socket.destroyed = TRUE], <<>>))
    /\ UNCHANGED <<nextRequest, thrown, wire, core>>

\* the core ends its side of the connection: the socket emits "end", for
\* which no handler is registered, and ends its own side (allowHalfOpen false)
PeerEnd ==
    /\ ~Constructed
    /\ ~socket.destroyed /\ ~socket.peerEnded
    /\ socket' = [socket EXCEPT !.peerEnded = TRUE, !.ended = TRUE]
    /\ UNCHANGED <<benchmark, promiseCallbackFunctions, availableCallbackSlots,
                   requestWriter, writeInProgress, remainingReadData, isClosed,
                   promises, callbackIndexOf, nextRequest, thrown, uncaught,
                   orphaned, wire, core, trace>>

Next ==
    \/ ConnectToServer
    \/ Submit
    \/ WriteComplete
    \/ CoreRespond
    \/ DataEvent
    \/ Close
    \/ SocketError
    \/ PeerEnd

Spec == Init /\ [][Next]_vars

\* the client, while nobody closes it and the socket stays up, against a core
\* that answers with values and may also send frames nobody asked for
NextStray ==
    \/ ConnectToServer
    \/ Submit
    \/ WriteComplete
    \/ CoreRespondValue
    \/ DataEvent
    \/ CoreStray

SpecStray == Init /\ [][NextStray]_vars

(***************************************************************************)
(* The read path on its own: a returned client with MaxRequests requests   *)
(* pending and written, and on the socket a stream of complete frames      *)
(* answering them in some order, delivered in chunks cut anywhere.         *)
(***************************************************************************)
\* what the stream's frames may carry
CodecPayloads ==
    {Payload("ok", Unspecified, FALSE),
     Payload("pointer", Unspecified, FALSE),
     Payload("empty", Unspecified, FALSE),
     Payload("requestError", Disconnect, FALSE),
     Payload("closingError", Unspecified, FALSE)}

\* a long message makes a body of more than 127 bytes, whose length prefix
\* takes two bytes; a stream with a long frame has pointers in its other frames
LongPayload == Payload("requestError", Timeout, TRUE)
LongPayloadChoices ==
    {pl \in [1..MaxRequests -> {LongPayload, Payload("pointer", Unspecified, FALSE)}] :
        Cardinality({i \in 1..MaxRequests : pl[i] = LongPayload}) = 1}

Orders(n) ==
    {f \in [1..n -> 1..n] : \A i, j \in 1..n : i # j => f[i] # f[j]}

CodecStreams ==
    {[i \in 1..MaxRequests |-> ResponseFor(order[i] - 1, order[i], pl[i])] :
        order \in Orders(MaxRequests),
        pl \in [1..MaxRequests -> CodecPayloads] \cup LongPayloadChoices}

InitCodec ==
    /\ benchmark = NoBenchmark
    /\ promiseCallbackFunctions = [i \in 1..MaxRequests |-> i]
    /\ availableCallbackSlots = <<>>
    /\ requestWriter = <<>>
    /\ writeInProgress = FALSE
    /\ remainingReadData = <<>>
    /\ isClosed = FALSE
    /\ socket = [NewSocket EXCEPT !.writes =
                    [i \in 1..(MaxRequests + 1) |->
                        [requests |-> <<[callbackIdx |-> IF i = 1 THEN 0 ELSE i - 2,
                                         request |-> i - 1]>>,
                         refused |-> FALSE]]]
    /\ promises = [p \in PromiseIds |->
                      IF p = 0 THEN Resolved("value", <<PointerOf(0)>>)
                      ELSE Pending]
    /\ callbackIndexOf = [p \in PromiseIds |-> IF p = 0 THEN 0 ELSE p - 1]
    /\ nextRequest = MaxRequests + 1
    /\ thrown = FALSE
    /\ uncaught = FALSE
    /\ orphaned = FALSE
    /\ core = [answered |-> 0..MaxRequests, strays |-> 0]
    /\ \E stream \in CodecStreams :
         /\ wire = Flatten([i \in 1..Len(stream) |-> EncodeDelimited(stream[i])])
         /\ trace = [on |-> TRUE, sent |-> stream, dispatched |-> <<>>]

NextCodec ==
    \/ DataEvent
    \/ Submit

SpecCodec == InitCodec /\ [][NextCodec]_vars

TypeOK ==
    /\ isClosed \in BOOLEAN
    /\ writeInProgress \in BOOLEAN
    /\ nextRequest \in 1..(MaxRequests + 1)
    /\ Len(promiseCallbackFunctions) <= MaxRequests + 1

(***************************************************************************)
(* Properties.                                                             *)
(***************************************************************************)
IsPending(p) == promises[p].state = "pending"
IsSettled(p) == promises[p].state \in {"resolved", "rejected"}
Requests == 1..MaxRequests

\* C1: no two requests pending at the same time hold the same callback index
C1_UniqueCallbackIndex ==
    \A p, q \in PromiseIds :
        (p # q /\ IsPending(p) /\ IsPending(q))
            => callbackIndexOf[p] # callbackIndexOf[q]

\* two requests pending together, the first on the index the connection
\* request had used
C1_Witness ==
    /\ IsPending(1) /\ IsPending(2)
    /\ callbackIndexOf[1] = 0 /\ callbackIndexOf[2] = 1

\* C2: a request is settled only by the response that answers it: a value is
\* the pointer of its own response, a request error carries its own message
C2_SettledByOwnResponse ==
    \A r \in PromiseIds :
        /\ promises[r].state = "resolved"
              => promises[r] = Resolved("value", <<PointerOf(r)>>)
        /\ (promises[r].state = "rejected" /\ promises[r].kind # "ClosingError")
              => /\ promises[r].kind \in {"TimeoutError", "ConnectionError"}
                 /\ promises[r].data = MessageOf(r, FALSE)

\* the second request answered and resolved while the first is still pending
C2_Witness ==
    /\ IsPending(1)
    /\ promises[2] = Resolved("value", <<PointerOf(2)>>)
    /\ callbackIndexOf[2] = 1

\* C3: a frame whose callback_idx names no pending request closes the client
C3_UnknownIndexCloses ==
    orphaned => (isClosed /\ socket.ended)

IsPrefix(a, b) == Len(a) <= Len(b) /\ a = SubSeq(b, 1, Len(a))

EncodeAll(frames) ==
    Flatten([i \in 1..Len(frames) |-> EncodeDelimited(frames[i])])

\* the frames of a stream up to and including its first closing error
UpToClosing(frames) ==
    LET closing == {i \in 1..Len(frames) : frames[i].closingError # <<>>}
    IN IF closing = {} THEN frames
       ELSE SubSeq(frames, 1, CHOOSE i \in closing : \A j \in closing : i <= j)

C5_SubmissionOrder ==
    LET all == Transmitted \o requestWriter
    IN \A i, j \in 1..Len(all) : i < j => all[i].request < all[j].request

\* two requests went out in one write, after the connection request's write
C5_Witness ==
    \E w \in 2..Len(socket.writes) :
        /\ Len(socket.writes[w].requests) >= 2
        /\ ~socket.writes[w].refused

\* C6: no request is passed to socket.write twice
C6_WrittenAtMostOnce ==
    \A i, j \in 1..Len(Written) : i # j => Written[i].request # Written[j].request

\* a request was rejected by a request error and every write is complete
C6_Witness ==
    /\ \E r \in Requests :
          /\ promises[r].state = "rejected"
          /\ promises[r].kind \in {"TimeoutError", "ConnectionError"}
    /\ socket.outstanding = 0
    /\ requestWriter = <<>>

\* C7: one write at a time; a request submitted during a write is only
\* buffered; the completion callback writes the whole buffer in one write
C7_SingleWriter ==
    [][/\ socket'.outstanding <= 1
       /\ (writeInProgress /\ nextRequest' # nextRequest)
             => /\ socket' = socket
                /\ requestWriter' =
                      Append(requestWriter,
                             [callbackIdx |-> callbackIndexOf'[nextRequest],
                              request |-> nextRequest])
       /\ (Len(socket'.writes) > Len(socket.writes) /\ requestWriter # <<>>)
             => /\ socket.outstanding = 1
                /\ socket'.writes[Len(socket'.writes)].requests = requestWriter
                /\ Len(socket'.writes) = Len(socket.writes) + 1
                /\ requestWriter' = <<>>]_vars

\* a write is in progress and a request waits in the buffer
C7_Witness ==
    /\ writeInProgress
    /\ socket.outstanding = 1
    /\ requestWriter # <<>>

\* C8: close() rejects every pending request with a ClosingError carrying its
\* message and ends the socket; nothing stays pending on a closed client and
\* a settled request never changes
C8_CloseRejectsPending ==
    [][/\ isClosed' => /\ socket'.ended
                       /\ \A p \in PromiseIds : promises'[p].state # "pending"
       /\ (~isClosed /\ isClosed' /\ wire' = wire)
             => \E m \in {<<>>, UserCloseMsg} :
                   \A p \in PromiseIds :
                       IsPending(p) => promises'[p] = Rejected("ClosingError", m)
       /\ \A p \in PromiseIds : IsSettled(p) => promises'[p] = promises[p]]_vars

\* a request rejected by close(message) whose response arrived afterwards
C8_Witness ==
    \E r \in Requests :
        /\ promises[r] = Rejected("ClosingError", UserCloseMsg)
        /\ r \in core.answered
        /\ wire = <<>> /\ remainingReadData = <<>>
        /\ orphaned

\* C9: on a closed client a submission throws and touches nothing
C9_ClosedRejectsSynchronously ==
    [][isClosed =>
          /\ nextRequest' = nextRequest
          /\ promiseCallbackFunctions' = promiseCallbackFunctions
          /\ Len(requestWriter') <= Len(requestWriter)
          /\ thrown' # thrown =>
                /\ thrown'
                /\ UNCHANGED <<availableCallbackSlots, requestWriter, socket,
                               promises, writeInProgress, callbackIndexOf>>]_vars

\* a submission was refused while a write was still outstanding
C9_Witness ==
    /\ isClosed /\ thrown
    /\ socket.outstanding = 1

\* the position in the history of the first closing error dispatched, or 0
ClosingAt(d) ==
    LET closing == {i \in 1..Len(d) : d[i].closingError # <<>>}
    IN IF closing = {} THEN 0
       ELSE CHOOSE i \in closing : \A j \in closing : i <= j

\* C10: a closing error closes the client: every request not answered before
\* it is rejected with a ClosingError carrying the frame's message, the socket
\* is ended, and no request is accepted afterwards
C10_ClosingErrorClosesClient ==
    [][/\ ClosingAt(trace.dispatched') > 0 =>
            LET n == ClosingAt(trace.dispatched')
                before == {trace.dispatched'[i].callbackIdx + 1 : i \in 1..(n - 1)}
            IN /\ isClosed'
               /\ socket'.ended
               /\ \A r \in Requests \ before :
                      promises'[r] =
                          Rejected("ClosingError",
                                   trace.dispatched'[n].closingError[1])
       /\ ClosingAt(trace.dispatched) > 0 =>
            /\ nextRequest' = nextRequest
            /\ promiseCallbackFunctions' = promiseCallbackFunctions
            /\ thrown' # thrown => thrown']_vars

\* the closing error named request 1 and request 2 was rejected with it; a
\* later submission was refused
C10_Witness ==
    /\ ClosingAt(trace.dispatched) = 1
    /\ trace.dispatched[1].callbackIdx = 0
    /\ promises[2] = Rejected("ClosingError", MessageOf(1, FALSE))
    /\ thrown

Range(s) == {s[i] : i \in DOMAIN s}

RECURSIVE FramesIn(_, _)
\* the complete frames in buf from position pos on
FramesIn(buf, pos) ==
    IF pos >= Len(buf) THEN <<>>
    ELSE LET d == decodeDelimited(buf, pos)
         IN IF d.err # "none" THEN <<>>
            ELSE <<d.val>> \o FramesIn(buf, d.pos)

\* frame m is the response the core built for request r
Answers(m, r) ==
    /\ m.callbackIdx = callbackIndexOf[r]
    /\ \/ m.respPointer = <<PointerOf(r)>>
       \/ /\ m.requestError # <<>>
          /\ m.requestError[1].message = MessageOf(r, FALSE)
       \/ m.closingError = <<MessageOf(r, FALSE)>>

\* request r was submitted and its response frame has not been read
ReplyOutstanding(r) ==
    /\ promises[r].state # "none"
    /\ \/ r \notin core.answered
       \/ LET unread == FramesIn(remainingReadData \o wire, 0)
          IN \E i \in 1..Len(unread) : Answers(unread[i], r)

\* the frames a step reads: those in the kept bytes followed by the bytes the
\* step takes from the socket
FramesRead(taken) == FramesIn(remainingReadData \o taken, 0)

\* C11: a step puts a callback index on the free stack only if it reads a
\* frame carrying that index; and while the reply to a request is
\* outstanding its callback index is not held by a request submitted after
\* it, nor, on a client that is not closed, on the free stack
C11_IndexReservedUntilReply ==
    /\ [][Len(availableCallbackSlots') > Len(availableCallbackSlots) =>
             LET taken == SubSeq(wire, 1, Len(wire) - Len(wire'))
                 read == FramesRead(taken)
             IN \A i \in (Len(availableCallbackSlots) + 1)
                               ..Len(availableCallbackSlots') :
                    \E j \in 1..Len(read) :
                        read[j].callbackIdx = availableCallbackSlots'[i]]_vars
    /\ [](\A r \in PromiseIds :
             ReplyOutstanding(r) =>
                 /\ ~isClosed =>
                        callbackIndexOf[r] \notin Range(availableCallbackSlots)
                 /\ \A q \in PromiseIds :
                        (q > r /\ promises[q].state # "none")
                            => callbackIndexOf[q] # callbackIndexOf[r])

\* request 1 failed with a Timeout read from its response, and its index went
\* to request 2, whose reply is outstanding
C11_Witness ==
    /\ promises[1].state = "rejected" /\ promises[1].kind = "TimeoutError"
    /\ callbackIndexOf[2] = callbackIndexOf[1]
    /\ ReplyOutstanding(2)


\* C12: when the socket fails or the peer closes it, every request pending at
\* that moment is rejected with a ConnectionError
C12_SocketLossFailsPendingWithDisconnect ==
    [][((~socket.destroyed /\ socket'.destroyed)
            \/ (~socket.peerEnded /\ socket'.peerEnded))
          => \A p \in PromiseIds :
                 IsPending(p) =>
                     /\ promises'[p].state = "rejected"
                     /\ promises'[p].kind = "ConnectionError"]_vars


(***************************************************************************)
(* The read path given request errors of every kind: the kinds of the      *)
(* schema and one the schema does not know, each with or without a         *)
(* message.  A type of 0 is not written on the wire, so Unspecified is     *)
(* also the frame whose type is missing.                                   *)
(***************************************************************************)
\* a returned client with MaxRequests requests pending and written, about to
\* read the given stream of frames
PendingClientReading(stream) ==
    /\ benchmark = NoBenchmark
    /\ promiseCallbackFunctions = [i \in 1..MaxRequests |-> i]
    /\ availableCallbackSlots = <<>>
    /\ requestWriter = <<>>
    /\ writeInProgress = FALSE
    /\ remainingReadData = <<>>
    /\ isClosed = FALSE
    /\ socket = [NewSocket EXCEPT !.writes =
                    [i \in 1..(MaxRequests + 1) |->
                        [requests |-> <<[callbackIdx |-> IF i = 1 THEN 0 ELSE i - 2,
                                         request |-> i - 1]>>,
                         refused |-> FALSE]]]
    /\ promises = [p \in PromiseIds |->
                      IF p = 0 THEN Resolved("value", <<PointerOf(0)>>)
                      ELSE Pending]
    /\ callbackIndexOf = [p \in PromiseIds |-> IF p = 0 THEN 0 ELSE p - 1]
    /\ nextRequest = MaxRequests + 1
    /\ thrown = FALSE
    /\ uncaught = FALSE
    /\ orphaned = FALSE
    /\ core = [answered |-> 0..MaxRequests, strays |-> 0]
    /\ wire = Flatten([i \in 1..Len(stream) |-> EncodeDelimited(stream[i])])
    /\ trace = [on |-> TRUE, sent |-> stream, dispatched |-> <<>>]

\* the error kinds a frame may carry: those of the schema and the next number
WireErrorTypes == 0..(Disconnect + 1)

\* a frame rejecting request r with the given kind and message
ErrorFor(r, e) ==
    [EmptyResponse EXCEPT !.callbackIdx = r - 1, !.requestError = <<e>>]

ErrorStreams ==
    {[i \in 1..MaxRequests |-> ErrorFor(order[i], e[i])] :
        order \in Orders(MaxRequests),
        e \in [1..MaxRequests ->
                  {[type |-> t, message |-> m] :
                      t \in WireErrorTypes,
                      m \in {<<>>, MessageOf(1, FALSE)}}]}

InitErrors == \E stream \in ErrorStreams : PendingClientReading(stream)

NextErrors == DataEvent

SpecErrors == InitErrors /\ [][NextErrors]_vars

\* the error class the kinds stand for
ClassOfKind(type) ==
    CASE type = Disconnect -> "ConnectionError"
      [] type = ExecAbort -> "ExecAbortError"
      [] type = Timeout -> "TimeoutError"
      [] OTHER -> "RequestError"

\* the frame of the stream that answers request r
SentFor(r) ==
    trace.sent[CHOOSE i \in 1..Len(trace.sent) : trace.sent[i].callbackIdx = r - 1]

\* C13: a request error rejects its request with the class of its kind and
\* with the message of the frame; once all bytes are read every request is
\* rejected
C13_ErrorClassByKind ==
    \A r \in Requests :
        /\ IsSettled(r) =>
              promises[r] = Rejected(ClassOfKind(SentFor(r).requestError[1].type),
                                     SentFor(r).requestError[1].message)
        /\ (wire = <<>> /\ remainingReadData = <<>>) => IsSettled(r)

\* an ExecAbort without a message and an error of unknown kind were both read
C13_Witness ==
    /\ promises[1] = Rejected("ExecAbortError", <<>>)
    /\ SentFor(2).requestError[1].type = Disconnect + 1
    /\ promises[2] = Rejected("RequestError", MessageOf(1, FALSE))


(***************************************************************************)
(* Requests with their content.  A command handed to createWritePromise is *)
(* an array of commands (a transaction), a Command or a ScriptInvocation;  *)
(* a message object is a record of its properties, <<>> for one that is    *)
(* not set.  The requests of the sections above are these requests with    *)
(* the content left out.                                                   *)
(***************************************************************************)
\* redis_request.SimpleRoutes and redis_request.SlotTypes
AllNodes == 0
AllPrimaries == 1
Random == 2
Primary == 0
Replica == 1

\* redis_request.Routes.create(properties)
RoutesCreate(simpleRoutes, slotKeyRoute, slotIdRoute) ==
    [simpleRoutes |-> simpleRoutes, slotKeyRoute |-> slotKeyRoute,
     slotIdRoute |-> slotIdRoute]

\* redis_request.SlotKeyRoute.create({slotType, slotKey}): an object with
\* these two properties; reading slotId from it gives undefined
SlotKeyRouteCreate(slotType, slotKey) ==
    [slotType |-> <<slotType>>, slotKey |-> <<slotKey>>, slotId |-> <<>>]

\* redis_request.SlotIdRoute.create({slotType, slotId}): an object with
\* these two properties; reading slotKey from it gives undefined
SlotIdRouteCreate(slotType, slotId) ==
    [slotType |-> <<slotType>>, slotKey |-> <<>>, slotId |-> <<slotId>>]

\* the routes a caller may name; "none" stands for undefined
SimpleRoute(name) == [type |-> name, key |-> <<>>, id |-> 0]
SlotKeyTypes(type, key) == [type |-> type, key |-> key, id |-> 0]
SlotIdTypes(type, id) == [type |-> type, key |-> <<>>, id |-> id]
NoRoute == SimpleRoute("none")

\* mutant: a client whose readFrom is "primary" sends its replica routes as
\* primary routes
toProtobufRoute_ByReadFrom(route) ==
    IF route = NoRoute THEN <<>>
    ELSE IF route.type = "allPrimaries"
    THEN <<RoutesCreate(<<AllPrimaries>>, <<>>, <<>>)>>
    ELSE IF route.type = "allNodes"
    THEN <<RoutesCreate(<<AllNodes>>, <<>>, <<>>)>>
    ELSE IF route.type = "randomNode"
    THEN <<RoutesCreate(<<Random>>, <<>>, <<>>)>>
    ELSE LET slotType ==
                 IF route.type \in {"replicaSlotKey", "replicaSlotId"}
                    /\ trace.options.readFrom # <<"primary">>
                 THEN Replica ELSE Primary
         IN IF route.type \in {"primarySlotKey", "replicaSlotKey"}
            THEN <<RoutesCreate(<<>>, <<SlotKeyRouteCreate(slotType, route.key)>>, <<>>)>>
            ELSE <<RoutesCreate(<<>>, <<SlotIdRouteCreate(slotType, route.id)>>, <<>>)>>

\* mutant: allNodes is sent as AllPrimaries
toProtobufRoute_NodesAsPrimaries(route) ==
    IF route = NoRoute THEN <<>>
    ELSE IF route.type \in {"allPrimaries", "allNodes"}
    THEN <<RoutesCreate(<<AllPrimaries>>, <<>>, <<>>)>>
    ELSE IF route.type = "randomNode"
    THEN <<RoutesCreate(<<Random>>, <<>>, <<>>)>>
    ELSE IF route.type \in {"primarySlotKey", "replicaSlotKey"}
    THEN <<RoutesCreate(<<>>,
               <<SlotKeyRouteCreate(IF route.type = "primarySlotKey"
                                    THEN Primary ELSE Replica, route.key)>>,
               <<>>)>>
    ELSE <<RoutesCreate(<<>>,
               <<SlotIdRouteCreate(IF route.type = "primarySlotId"
                                   THEN Primary ELSE Replica, route.id)>>,
               <<>>)>>

\* toProtobufRoute(route): <<>> for undefined, else <<the Routes message>>
toProtobufRoute(route) ==
    IF route = NoRoute THEN <<>>
    ELSE IF route.type = "allPrimaries"
    THEN <<RoutesCreate(<<AllPrimaries>>, <<>>, <<>>)>>
    ELSE IF route.type = "allNodes"
    THEN <<RoutesCreate(<<AllNodes>>, <<>>, <<>>)>>
    ELSE IF route.type = "randomNode"
    THEN <<RoutesCreate(<<Random>>, <<>>, <<>>)>>
    ELSE IF route.type = "primarySlotKey"
    THEN <<RoutesCreate(<<>>, <<SlotKeyRouteCreate(Primary, route.key)>>, <<>>)>>
    ELSE IF route.type = "replicaSlotKey"
    THEN <<RoutesCreate(<<>>, <<SlotKeyRouteCreate(Replica, route.key)>>, <<>>)>>
    ELSE IF route.type = "primarySlotId"
    THEN <<RoutesCreate(<<>>, <<SlotIdRouteCreate(Primary, route.id)>>, <<>>)>>
    ELSE IF route.type = "replicaSlotId"
    THEN <<RoutesCreate(<<>>, <<SlotIdRouteCreate(Replica, route.id)>>, <<>>)>>
    ELSE <<>>

\* what createWritePromise is given as its command
TransactionCommands(commands) == [array |-> TRUE, isCommand |-> FALSE, value |-> commands]
SingleCommand(command) == [array |-> FALSE, isCommand |-> TRUE, value |-> command]
Script(script) == [array |-> FALSE, isCommand |-> FALSE, value |-> script]

\* redis_request.RedisRequest.create(properties), then message.route = route;
\* request is the number of the submission, kept for the history
RedisRequestCreate(callbackIdx, singleCommand, transaction, scriptInvocation, route, r) ==
    [callbackIdx |-> callbackIdx, request |-> r,
     singleCommand |-> singleCommand, transaction |-> transaction,
     scriptInvocation |-> scriptInvocation, route |-> route]

\* mutant: the Array.isArray case is missing
writeOrBufferCommand_NoArrayCase(c, callbackIdx, command, route, r) ==
    writeOrBufferRequest(c,
        IF command.isCommand
        THEN RedisRequestCreate(callbackIdx, <<command.value>>, <<>>, <<>>, route, r)
        ELSE RedisRequestCreate(callbackIdx, <<>>, <<>>, <<command.value>>, route, r))

\* writeOrBufferRedisRequest(callbackIdx, command, route)
writeOrBufferCommand(c, callbackIdx, command, route, r) ==
    writeOrBufferRequest(c,
        IF command.array
        THEN RedisRequestCreate(callbackIdx, <<>>,
                                <<[commands |-> command.value]>>, <<>>, route, r)
        ELSE IF command.isCommand
        THEN RedisRequestCreate(callbackIdx, <<command.value>>, <<>>, <<>>, route, r)
        ELSE RedisRequestCreate(callbackIdx, <<>>, <<>>, <<command.value>>, route, r))

\* createWritePromise(command, route) as submission r
createCommandPromise(c, command, route, r) ==
    IF c.isClosed
    THEN [threw |-> TRUE, client |-> c]
    ELSE LET callbackIndex == getCallbackIndex(c)
             c1 == PopSlot(c)
             c2 == [c1 EXCEPT !.promiseCallbackFunctions =
                                  SetCallback(c1.promiseCallbackFunctions,
                                              callbackIndex, r),
                              !.promises = [c1.promises EXCEPT ![r] = Pending],
                              !.callbackIndexOf =
                                  [c1.callbackIndexOf EXCEPT ![r] = callbackIndex]]
         IN [threw |-> FALSE,
             client |-> writeOrBufferCommand(c2, callbackIndex, command, route, r)]

\* RedisClusterClient.exec(transaction, route)
exec(c, transaction, route, r) ==
    createCommandPromise(c, TransactionCommands(transaction.commands),
                         toProtobufRoute(route), r)

\* RedisClusterClient.customCommand(args, route); createCustomCommand(args)
\* builds a Command, which here is its arguments
customCommand(c, args, route, r) ==
    createCommandPromise(c, SingleCommand(args), toProtobufRoute(route), r)


(***************************************************************************)
(* Transactions: a connected client whose caller makes MaxRequests calls   *)
(* of exec, against a core that answers each with a value, with nothing or *)
(* with an error.  trace.calls holds the arguments of the calls to come.   *)
(***************************************************************************)
MaxCommands == 2

\* the command lists of a transaction: every list of up to MaxCommands
\* different commands
CommandLists ==
    {cs \in UNION {[1..n -> 1..MaxCommands] : n \in 0..MaxCommands} :
        \A i, j \in DOMAIN cs : i # j => cs[i] # cs[j]}

ExecCalls ==
    [Requests -> {[commands |-> cs, route |-> rt] :
                     cs \in CommandLists,
                     rt \in {NoRoute, SimpleRoute("randomNode")}}]

\* the client __createClientInternal returned, with no request made yet
ReturnedClient ==
    /\ benchmark = NoBenchmark
    /\ promiseCallbackFunctions = <<0>>
    /\ availableCallbackSlots = <<0>>
    /\ requestWriter = <<>>
    /\ writeInProgress = FALSE
    /\ remainingReadData = <<>>
    /\ isClosed = FALSE
    /\ socket = [NewSocket EXCEPT !.writes =
                    <<[requests |-> <<[callbackIdx |-> 0, request |-> 0]>>,
                       refused |-> FALSE]>>]
    /\ promises = [p \in PromiseIds |->
                      IF p = 0 THEN Resolved("value", <<PointerOf(0)>>)
                      ELSE NoPromise]
    /\ callbackIndexOf = [p \in PromiseIds |-> IF p = 0 THEN 0 ELSE -1]
    /\ nextRequest = 1
    /\ thrown = FALSE
    /\ uncaught = FALSE
    /\ orphaned = FALSE
    /\ wire = <<>>

InitExec ==
    /\ ReturnedClient
    /\ core = [answered |-> {0}, strays |-> 0,
               replies |-> [r \in Requests |-> "none"]]
    /\ \E calls \in ExecCalls :
         trace = [on |-> FALSE, sent |-> <<>>, dispatched |-> <<>>,
                  calls |-> calls]

\* the caller's next call of exec
Exec ==
    /\ Ready
    /\ nextRequest <= MaxRequests
    /\ LET call == trace.calls[nextRequest]
           result == exec(Client, [commands |-> call.commands], call.route,
                          nextRequest)
       IN /\ Install(result.client)
          /\ thrown' = result.threw
          /\ nextRequest' = IF result.threw THEN nextRequest ELSE nextRequest + 1
    /\ UNCHANGED <<wire, core>>

\* what the core may answer to a transaction
ExecPayloads ==
    {Payload("pointer", Unspecified, FALSE),
     Payload("empty", Unspecified, FALSE),
     Payload("requestError", ExecAbort, FALSE)}

\* the core answers a transaction it has received, and remembers its answer
CoreExecReply ==
    /\ Readable
    /\ \E i \in 1..Len(Transmitted), pl \in ExecPayloads :
         LET req == Transmitted[i] IN
         /\ req.request \notin core.answered
         /\ CoreSend(ResponseFor(req.callbackIdx, req.request, pl))
         /\ core' = [core EXCEPT !.answered = @ \cup {req.request},
                                 !.replies[req.request] = pl.kind]
    /\ UNCHANGED <<benchmark, promiseCallbackFunctions, availableCallbackSlots,
                   requestWriter, writeInProgress, remainingReadData, isClosed,
                   socket, promises, callbackIndexOf, nextRequest, thrown,
                   uncaught, orphaned>>

NextExec ==
    \/ Exec
    \/ WriteComplete
    \/ CoreExecReply
    \/ DataEvent

SpecExec == InitExec /\ [][NextExec]_vars


\* every request handed to writeOrBufferRequest so far, in order
Emitted == Written \o requestWriter

\* the requests made so far
Made == 1..(nextRequest - 1)

\* what the caller gets for the core's answer to request r
OutcomeOf(kind, r) ==
    CASE kind = "pointer" -> Resolved("value", <<PointerOf(r)>>)
      [] kind = "empty" -> Resolved("null", <<>>)
      [] kind = "requestError" -> Rejected("ExecAbortError", MessageOf(r, FALSE))

\* C14: a call of exec takes one callback index and emits one request frame,
\* a transaction holding the call's commands in order with at most one
\* route; its promise is settled only by the core's one answer to that frame,
\* with the value, with null or with the error, and never changes afterwards
C14_TransactionIsOneRequest ==
    [][/\ \A r \in 1..(nextRequest' - 1) :
            LET frames == {i \in 1..Len(Emitted') : Emitted'[i].request = r}
                call == trace.calls[r]
            IN /\ Cardinality(frames) = 1
               /\ \A i \in frames :
                     /\ Emitted'[i].callbackIdx = callbackIndexOf'[r]
                     /\ Emitted'[i].transaction = <<[commands |-> call.commands]>>
                     /\ Emitted'[i].singleCommand = <<>>
                     /\ Emitted'[i].scriptInvocation = <<>>
                     /\ Len(Emitted'[i].route) <= 1
                     /\ Emitted'[i].route = <<>> <=> call.route = NoRoute
               /\ promises'[r].state # "pending" =>
                     /\ r \in core'.answered
                     /\ promises'[r] = OutcomeOf(core'.replies[r], r)
               /\ IsSettled(r) => promises'[r] = promises[r]
       /\ nextRequest' # nextRequest =>
            /\ Len(Emitted') = Len(Emitted) + 1
            /\ Len(promiseCallbackFunctions') + Len(availableCallbackSlots) =
                   Len(promiseCallbackFunctions) + Len(availableCallbackSlots') + 1
               \/ /\ Len(promiseCallbackFunctions') = Len(promiseCallbackFunctions)
                  /\ Len(availableCallbackSlots') = Len(availableCallbackSlots) - 1
       /\ nextRequest' = nextRequest => Len(Emitted') = Len(Emitted)]_vars

\* both orders of two commands were submitted, the second transaction was
\* answered with nothing and the first with a value
C14_Witness ==
    /\ trace.calls[1].commands = <<1, 2>>
    /\ trace.calls[2].commands = <<2, 1>>
    /\ promises[2] = Resolved("null", <<>>)
    /\ promises[1] = Resolved("value", <<PointerOf(1)>>)

\* an empty transaction was submitted and rejected with the server's error
C14_EmptyWitness ==
    /\ trace.calls[1].commands = <<>>
    /\ promises[1] = Rejected("ExecAbortError", MessageOf(1, FALSE))


(***************************************************************************)
(* The connection request.  An option that is not given is <<>>, one that  *)
(* is given is <<value>>.                                                  *)
(***************************************************************************)
\* connection_request.ReadFrom and connection_request.TlsMode
ReadFromPrimary == 0
ReadFromPreferReplica == 1
NoTls == 0
SecureTls == 1

\* MAP_READ_FROM_STRATEGY
MAP_READ_FROM_STRATEGY(readFrom) ==
    IF readFrom = "primary" THEN ReadFromPrimary ELSE ReadFromPreferReplica

\* BaseClient.createClientRequest(options)
createClientRequest(options) ==
    LET readFrom == IF options.readFrom # <<>>
                    THEN <<MAP_READ_FROM_STRATEGY(options.readFrom[1])>>
                    ELSE <<>>
        authenticationInfo ==
            IF options.credentials # <<>>
               /\ options.credentials[1].password # <<>>   \* "password" in
            THEN <<[password |-> options.credentials[1].password,
                    username |-> options.credentials[1].username]>>
            ELSE <<>>
    IN [protocol |-> options.serverProtocol,
        clientName |-> options.clientName,
        addresses |-> options.addresses,
        tlsMode |-> IF options.useTLS = <<TRUE>> THEN SecureTls ELSE NoTls,
        requestTimeout |-> options.requestTimeout,
        clusterModeEnabled |-> FALSE,
        readFrom |-> readFrom,
        authenticationInfo |-> authenticationInfo]

\* mutant: the cluster client leaves the base request as it is
createClusterClientRequest_Inherited(options) ==
    createClientRequest(options)

\* RedisClusterClient.createClientRequest(options)
createClusterClientRequest(options) ==
    LET configuration == createClientRequest(options)
    IN [configuration EXCEPT !.clusterModeEnabled = TRUE]

\* connectToServer(options) of a RedisClusterClient: the connection request
\* is request 0 and carries what createClientRequest built
connectClusterToServer(c, options) ==
    LET c1 == [c EXCEPT !.promiseCallbackFunctions =
                            SetCallback(c.promiseCallbackFunctions, 0, 0),
                        !.promises = [c.promises EXCEPT ![0] = Pending],
                        !.callbackIndexOf = [c.callbackIndexOf EXCEPT ![0] = 0]]
    IN writeOrBufferRequest(c1,
           [callbackIdx |-> 0, request |-> 0,
            connection |-> createClusterClientRequest(options)])

\* the options of a client that names one node and sets nothing else
PlainOptions ==
    [addresses |-> <<[host |-> <<104>>, port |-> <<>>]>>,
     useTLS |-> <<>>, credentials |-> <<>>, requestTimeout |-> <<>>,
     readFrom |-> <<>>, serverProtocol |-> <<>>, clientName |-> <<>>]


(***************************************************************************)
(* The wire form of a route, as the encoders generated from                *)
(* redis_request.proto write it: an encoder writes the properties of its   *)
(* own message type that the object has, and no other.                     *)
(***************************************************************************)
\* SlotKeyRoute.encode: slot_type = 1, slot_key = 2
EncodeSlotKeyRoute(o) ==
    (IF o.slotType # <<>> THEN <<8>> \o Varint(o.slotType[1]) ELSE <<>>)
    \o (IF o.slotKey # <<>>
        THEN <<18>> \o Varint(Len(o.slotKey[1])) \o o.slotKey[1] ELSE <<>>)

\* SlotIdRoute.encode: slot_type = 1, slot_id = 2
EncodeSlotIdRoute(o) ==
    (IF o.slotType # <<>> THEN <<8>> \o Varint(o.slotType[1]) ELSE <<>>)
    \o (IF o.slotId # <<>> THEN <<16>> \o Varint(o.slotId[1]) ELSE <<>>)

\* Routes.encode: simple_routes = 1, slot_key_route = 2, slot_id_route = 3
EncodeRoutes(m) ==
    (IF m.simpleRoutes # <<>> THEN <<8>> \o Varint(m.simpleRoutes[1]) ELSE <<>>)
    \o (IF m.slotKeyRoute # <<>>
        THEN LET b == EncodeSlotKeyRoute(m.slotKeyRoute[1])
             IN <<18>> \o Varint(Len(b)) \o b
        ELSE <<>>)
    \o (IF m.slotIdRoute # <<>>
        THEN LET b == EncodeSlotIdRoute(m.slotIdRoute[1])
             IN <<26>> \o Varint(Len(b)) \o b
        ELSE <<>>)

(***************************************************************************)
(* Routed commands: a cluster client is created with some readFrom option  *)
(* and, once returned, its caller makes MaxRequests calls of customCommand *)
(* with routes of every kind.  trace.calls holds the arguments of the      *)
(* calls to come, trace.options the options of the client.                 *)
(***************************************************************************)
SlotKeys == {<<97>>, <<98>>}
SlotIds == {0, 5, 300}

CallerRoutes ==
    {NoRoute, SimpleRoute("allPrimaries"), SimpleRoute("allNodes"),
     SimpleRoute("randomNode")}
    \cup {SlotKeyTypes(t, k) : t \in {"primarySlotKey", "replicaSlotKey"},
                               k \in SlotKeys}
    \cup {SlotIdTypes(t, n) : t \in {"primarySlotId", "replicaSlotId"},
                              n \in SlotIds}

RouteCalls == [Requests -> {[args |-> <<1>>, route |-> rt] : rt \in CallerRoutes}]

ReadFromOptions == {<<>>, <<"primary">>, <<"preferReplica">>}

InitRoute ==
    /\ benchmark = NoBenchmark
    /\ promiseCallbackFunctions = <<>>
    /\ availableCallbackSlots = <<>>
    /\ requestWriter = <<>>
    /\ writeInProgress = FALSE
    /\ remainingReadData = <<>>
    /\ isClosed = FALSE
    /\ socket = NewSocket
    /\ promises = [p \in PromiseIds |-> NoPromise]
    /\ callbackIndexOf = [p \in PromiseIds |-> -1]
    /\ nextRequest = 1
    /\ thrown = FALSE
    /\ uncaught = FALSE
    /\ orphaned = FALSE
    /\ wire = <<>>
    /\ core = [answered |-> {}, strays |-> 0]
    /\ \E calls \in RouteCalls, readFrom \in ReadFromOptions :
         trace = [on |-> FALSE, sent |-> <<>>, dispatched |-> <<>>,
                  calls |-> calls,
                  options |-> [PlainOptions EXCEPT !.readFrom = readFrom]]

\* RedisClusterClient.__createClient up to the await of connectToServer
ConnectCluster ==
    /\ Constructed
    /\ Install(connectClusterToServer(Client, trace.options))
    /\ UNCHANGED <<nextRequest, thrown, wire, core>>

\* the core accepts the connection request
CoreConnected ==
    /\ Readable
    /\ \E i \in 1..Len(Transmitted) :
         LET req == Transmitted[i] IN
         /\ req.request = 0
         /\ req.request \notin core.answered
         /\ CoreSend(ResponseFor(req.callbackIdx, req.request,
                                 Payload("ok", Unspecified, FALSE)))
         /\ core' = [core EXCEPT !.answered = @ \cup {req.request}]
    /\ UNCHANGED <<benchmark, promiseCallbackFunctions, availableCallbackSlots,
                   requestWriter, writeInProgress, remainingReadData, isClosed,
                   socket, promises, callbackIndexOf, nextRequest, thrown,
                   uncaught, orphaned>>

\* the caller's next call of customCommand
CustomCommand ==
    /\ Ready
    /\ nextRequest <= MaxRequests
    /\ LET call == trace.calls[nextRequest]
           result == customCommand(Client, call.args, call.route, nextRequest)
       IN /\ Install(result.client)
          /\ thrown' = result.threw
          /\ nextRequest' = IF result.threw THEN nextRequest ELSE nextRequest + 1
    /\ UNCHANGED <<wire, core>>

NextRoute ==
    \/ ConnectCluster
    \/ WriteComplete
    \/ CoreConnected
    \/ DataEvent
    \/ CustomCommand

SpecRoute == InitRoute /\ [][NextRoute]_vars


\* the frame emitted for request r, and its route as it goes on the wire
FrameOf(r) == Emitted[CHOOSE i \in 1..Len(Emitted) : Emitted[i].request = r]
RouteWire(r) ==
    IF FrameOf(r).route = <<>> THEN <<>> ELSE EncodeRoutes(FrameOf(r).route[1])

\* a sub-message in field number f - 2 of the route (f its tag)
Delimited(f, b) == <<f>> \o Varint(Len(b)) \o b

SlotTypeOf(type) ==
    IF type \in {"primarySlotKey", "primarySlotId"} THEN Primary ELSE Replica

\* C15: a slot-id route is sent as a slot-id route carrying the id and the
\* slot type, and routes with different ids go out as different bytes
C15_SlotIdRouteCarriesId ==
    \A r \in Made :
        LET rt == trace.calls[r].route
        IN rt.type \in {"primarySlotId", "replicaSlotId"} =>
             /\ FrameOf(r).route[1].slotIdRoute # <<>>
             /\ FrameOf(r).route[1].slotIdRoute[1].slotId = <<rt.id>>
             /\ RouteWire(r) =
                    Delimited(26, <<8>> \o Varint(SlotTypeOf(rt.type))
                                  \o <<16>> \o Varint(rt.id))
             /\ \A q \in Made :
                    (trace.calls[q].route.type = rt.type
                       /\ trace.calls[q].route.id # rt.id)
                        => RouteWire(q) # RouteWire(r)

\* C16: a replica route goes out with the Replica slot type whatever the
\* client's readFrom option: a replicaSlotKey route as the slot-key route of
\* its key, a replicaSlotId route as a slot route whose type is Replica
C16_ReplicaRouteOverridesReadFrom ==
    \A r \in Made :
        LET rt == trace.calls[r].route
            m == FrameOf(r).route
        IN /\ rt.type = "replicaSlotKey" =>
                 RouteWire(r) =
                     Delimited(18, <<8>> \o Varint(Replica)
                                   \o <<18>> \o Varint(Len(rt.key)) \o rt.key)
           /\ rt.type = "replicaSlotId" =>
                 /\ Len(m) = 1
                 /\ \E o \in Range(m[1].slotKeyRoute) \cup Range(m[1].slotIdRoute) :
                        o.slotType = <<Replica>>
                 /\ SubSeq(RouteWire(r), 3, 4) = <<8, Replica>>

\* a client created with readFrom "primary" sent a replicaSlotKey route and
\* a replicaSlotId route
C16_Witness ==
    /\ trace.options.readFrom = <<"primary">>
    /\ nextRequest = MaxRequests + 1
    /\ trace.calls[1].route = SlotKeyTypes("replicaSlotKey", <<98>>)
    /\ trace.calls[2].route.type = "replicaSlotId"
    /\ Transmitted[1].connection.readFrom = <<ReadFromPrimary>>

\* C17: a simple route or a key route is sent as the matching route message
\* and nothing else, and a call without a route sends no route
C17_SimpleAndKeyRoutes ==
    \A r \in Made :
        LET rt == trace.calls[r].route
            m == FrameOf(r).route
            simple(v) == /\ m = <<RoutesCreate(<<v>>, <<>>, <<>>)>>
                         /\ RouteWire(r) = <<8>> \o Varint(v)
        IN /\ FrameOf(r).singleCommand = <<trace.calls[r].args>>
           /\ rt = NoRoute => m = <<>>
           /\ rt.type = "allPrimaries" => simple(AllPrimaries)
           /\ rt.type = "allNodes" => simple(AllNodes)
           /\ rt.type = "randomNode" => simple(Random)
           /\ rt.type \in {"primarySlotKey", "replicaSlotKey"} =>
                 /\ m = <<RoutesCreate(<<>>,
                            <<SlotKeyRouteCreate(SlotTypeOf(rt.type), rt.key)>>,
                            <<>>)>>
                 /\ RouteWire(r) =
                        Delimited(18, <<8>> \o Varint(SlotTypeOf(rt.type))
                                      \o <<18>> \o Varint(Len(rt.key)) \o rt.key)

\* a call without a route and a call routed to all nodes were both written
C17_Witness ==
    /\ nextRequest = MaxRequests + 1
    /\ requestWriter = <<>>
    /\ trace.calls[1].route = NoRoute
    /\ trace.calls[2].route = SimpleRoute("allNodes")


\* connectToServer(options) of a BaseClient that is no cluster client
connectBaseToServer(c, options) ==
    LET c1 == [c EXCEPT !.promiseCallbackFunctions =
                            SetCallback(c.promiseCallbackFunctions, 0, 0),
                        !.promises = [c.promises EXCEPT ![0] = Pending],
                        !.callbackIndexOf = [c.callbackIndexOf EXCEPT ![0] = 0]]
    IN writeOrBufferRequest(c1,
           [callbackIdx |-> 0, request |-> 0,
            connection |-> createClientRequest(options)])

(***************************************************************************)
(* The Java client's ConnectionManager.  A configuration is a record of    *)
(* its getters, <<>> for null; a built ConnectionRequest is a record of    *)
(* its fields, a scalar that was not set holding its proto3 default and a  *)
(* message that was not set being <<>>.                                    *)
(***************************************************************************)
\* ConnectionRequest.newBuilder()
NewConnectionRequest ==
    [addresses |-> <<>>, tlsMode |-> NoTls, clusterModeEnabled |-> FALSE,
     requestTimeout |-> 0, readFrom |-> ReadFromPrimary,
     connectionRetryStrategy |-> <<>>, authenticationInfo |-> <<>>,
     databaseId |-> 0]

\* mutant: everything but PRIMARY asks for replicas
mapReadFromEnum_PrimaryOnly(readFrom) ==
    IF readFrom = "PRIMARY" THEN ReadFromPrimary ELSE ReadFromPreferReplica

\* mapReadFromEnum
mapReadFromEnum(readFrom) ==
    IF readFrom = "PREFER_REPLICA" THEN ReadFromPreferReplica ELSE ReadFromPrimary

\* setupConnectionRequestBuilderBaseConfiguration
setupConnectionRequestBuilderBaseConfiguration(configuration) ==
    LET b1 == [NewConnectionRequest EXCEPT
                  !.addresses = configuration.addresses,
                  !.tlsMode = IF configuration.useTLS THEN SecureTls ELSE NoTls,
                  !.readFrom = mapReadFromEnum(configuration.readFrom)]
        b2 == IF configuration.credentials # <<>>
              THEN [b1 EXCEPT !.authenticationInfo =
                       <<[username |-> IF configuration.credentials[1].username # <<>>
                                       THEN configuration.credentials[1].username[1]
                                       ELSE <<>>,
                          password |-> configuration.credentials[1].password]>>]
              ELSE b1
    IN IF configuration.requestTimeout # <<>>
       THEN [b2 EXCEPT !.requestTimeout = configuration.requestTimeout[1]]
       ELSE b2

\* mutant: the database id is not copied
setupConnectionRequestBuilderRedisClient_NoDatabase(configuration) ==
    LET b1 == [setupConnectionRequestBuilderBaseConfiguration(configuration)
                  EXCEPT !.clusterModeEnabled = FALSE]
    IN IF configuration.reconnectStrategy # <<>>
       THEN [b1 EXCEPT !.connectionRetryStrategy =
                <<[numberOfRetries |-> configuration.reconnectStrategy[1].numOfRetries,
                   factor |-> configuration.reconnectStrategy[1].factor,
                   exponentBase |-> configuration.reconnectStrategy[1].exponentBase]>>]
       ELSE b1

\* setupConnectionRequestBuilderRedisClient
setupConnectionRequestBuilderRedisClient(configuration) ==
    LET b1 == [setupConnectionRequestBuilderBaseConfiguration(configuration)
                  EXCEPT !.clusterModeEnabled = FALSE]
        b2 == IF configuration.reconnectStrategy # <<>>
              THEN [b1 EXCEPT !.connectionRetryStrategy =
                       <<[numberOfRetries |-> configuration.reconnectStrategy[1].numOfRetries,
                          factor |-> configuration.reconnectStrategy[1].factor,
                          exponentBase |-> configuration.reconnectStrategy[1].exponentBase]>>]
              ELSE b1
    IN IF configuration.databaseId # <<>>
       THEN [b2 EXCEPT !.databaseId = configuration.databaseId[1]]
       ELSE b2

\* setupConnectionRequestBuilderRedisClusterClient
setupConnectionRequestBuilderRedisClusterClient(configuration) ==
    [setupConnectionRequestBuilderBaseConfiguration(configuration)
        EXCEPT !.clusterModeEnabled = TRUE]

\* createConnectionRequest: by the class of the configuration
createConnectionRequest(configuration) ==
    IF configuration.class = "RedisClusterClientConfiguration"
    THEN setupConnectionRequestBuilderRedisClusterClient(configuration)
    ELSE setupConnectionRequestBuilderRedisClient(configuration)

\* connectToRedis up to channel.connect(request): the request goes to the
\* channel and the future of its response is pending
connectToRedis(c, configuration) ==
    [c EXCEPT !.promises = [c.promises EXCEPT ![0] = Pending],
              !.socket = SocketWrite(c.socket,
                  <<[callbackIdx |-> 0, request |-> 0,
                     connection |-> createConnectionRequest(configuration)]>>)]


(***************************************************************************)
(* Connecting: a client of one of the four kinds is created from some      *)
(* configuration and sends its connection request.  trace.client is the    *)
(* kind of client, trace.options its configuration.                        *)
(***************************************************************************)
Credentials ==
    {<<>>,
     <<[username |-> <<>>, password |-> <<112>>]>>,
     <<[username |-> <<<<117>>>>, password |-> <<112>>]>>}

PORT == 6379
Hosts == {<<104>>, <<104, 50>>}

\* BaseClientConfiguration of the Node client (credentials.username is the
\* string itself or undefined)
NodeOptions ==
    {[PlainOptions EXCEPT !.addresses = <<[host |-> h, port |-> pt]>>,
                          !.useTLS = tls, !.credentials = cr,
                          !.requestTimeout = tmo, !.readFrom = rf] :
        h \in Hosts, pt \in {<<>>, <<PORT>>, <<PORT + 1>>},
        tls \in {<<>>, <<TRUE>>, <<FALSE>>},
        cr \in {<<>>,
                <<[username |-> <<>>, password |-> <<<<112>>>>]>>,
                <<[username |-> <<<<117>>>>, password |-> <<<<112>>>>]>>},
        tmo \in {<<>>, <<250>>},
        rf \in ReadFromOptions}

\* BaseClientConfiguration of the Java client; a readFrom that was not set
\* is the null reference, written "null"
JavaBaseConfigurations(class) ==
    {[class |-> class,
      addresses |-> <<[host |-> <<104>>, port |-> 6379]>>,
      useTLS |-> tls, readFrom |-> rf, credentials |-> cr,
      requestTimeout |-> tmo,
      reconnectStrategy |-> <<>>, databaseId |-> <<>>] :
        tls \in BOOLEAN, rf \in {"null", "PRIMARY", "PREFER_REPLICA"},
        cr \in Credentials, tmo \in {<<>>, <<250>>}}

ReconnectStrategies ==
    {<<>>, <<[numOfRetries |-> 3, factor |-> 2, exponentBase |-> 5]>>}

JavaConfigurations ==
    JavaBaseConfigurations("RedisClusterClientConfiguration")
    \cup {[cf EXCEPT !.reconnectStrategy = rs, !.databaseId = db] :
             cf \in JavaBaseConfigurations("RedisClientConfiguration"),
             rs \in ReconnectStrategies,
             db \in {<<>>, <<0>>, <<1>>}}

InitConfig ==
    /\ benchmark = NoBenchmark
    /\ promiseCallbackFunctions = <<>>
    /\ availableCallbackSlots = <<>>
    /\ requestWriter = <<>>
    /\ writeInProgress = FALSE
    /\ remainingReadData = <<>>
    /\ isClosed = FALSE
    /\ socket = NewSocket
    /\ promises = [p \in PromiseIds |-> NoPromise]
    /\ callbackIndexOf = [p \in PromiseIds |-> -1]
    /\ nextRequest = 1
    /\ thrown = FALSE
    /\ uncaught = FALSE
    /\ orphaned = FALSE
    /\ wire = <<>>
    /\ core = [answered |-> {}, strays |-> 0]
    /\ \/ \E client \in {"BaseClient", "RedisClusterClient"}, o \in NodeOptions :
            trace = [on |-> FALSE, sent |-> <<>>, dispatched |-> <<>>,
                     client |-> client, options |-> o]
       \/ \E cf \in JavaConfigurations :
            trace = [on |-> FALSE, sent |-> <<>>, dispatched |-> <<>>,
                     client |-> "ConnectionManager", options |-> cf]

\* __createClientInternal of the Node client up to its await
NodeConnect ==
    /\ Constructed
    /\ trace.client # "ConnectionManager"
    /\ Install(IF trace.client = "RedisClusterClient"
               THEN connectClusterToServer(Client, trace.options)
               ELSE connectBaseToServer(Client, trace.options))
    /\ UNCHANGED <<nextRequest, thrown, wire, core>>

\* ConnectionManager.connectToRedis(configuration) of the Java client
JavaConnect ==
    /\ Constructed
    /\ trace.client = "ConnectionManager"
    /\ Install(connectToRedis(Client, trace.options))
    /\ UNCHANGED <<nextRequest, thrown, wire, core>>

NextConfig ==
    \/ NodeConnect
    \/ JavaConnect
    \/ WriteComplete

SpecConfig == InitConfig /\ [][NextConfig]_vars

\* the connection request that was handed to the socket
ConnectionSent == Written[1].connection
Connected == Len(Written) >= 1

\* C18: the client's kind alone decides cluster_mode_enabled, and the fields
\* that come from the base configuration are the same for both kinds
C18_ClusterModeByClientKind ==
    Connected =>
        LET o == trace.options
            m == ConnectionSent
        IN IF trace.client = "ConnectionManager"
           THEN /\ m.clusterModeEnabled
                      = (o.class = "RedisClusterClientConfiguration")
                /\ m.addresses = o.addresses
                /\ m.tlsMode = (IF o.useTLS THEN SecureTls ELSE NoTls)
                /\ m.readFrom = (IF o.readFrom = "PREFER_REPLICA"
                                 THEN ReadFromPreferReplica ELSE ReadFromPrimary)
                /\ m.requestTimeout = (IF o.requestTimeout = <<>> THEN 0
                                       ELSE o.requestTimeout[1])
                /\ (m.authenticationInfo = <<>>) = (o.credentials = <<>>)
                /\ o.credentials # <<>> =>
                      /\ m.authenticationInfo[1].password = o.credentials[1].password
                      /\ m.authenticationInfo[1].username
                            = (IF o.credentials[1].username = <<>> THEN <<>>
                               ELSE o.credentials[1].username[1])
           ELSE /\ m.clusterModeEnabled = (trace.client = "RedisClusterClient")
                /\ m.addresses = o.addresses
                /\ m.tlsMode = (IF o.useTLS = <<TRUE>> THEN SecureTls ELSE NoTls)
                /\ m.readFrom = (IF o.readFrom = <<>> THEN <<>>
                                 ELSE IF o.readFrom = <<"primary">>
                                 THEN <<ReadFromPrimary>>
                                 ELSE <<ReadFromPreferReplica>>)
                /\ m.requestTimeout = o.requestTimeout
                /\ m.protocol = o.serverProtocol
                /\ m.clientName = o.clientName
                /\ (m.authenticationInfo = <<>>) = (o.credentials = <<>>)
                /\ o.credentials # <<>> =>
                      m.authenticationInfo[1] =
                          [password |-> o.credentials[1].password,
                           username |-> o.credentials[1].username]

\* a Node cluster client with TLS and credentials has sent its request
C18_Witness ==
    /\ Connected
    /\ trace.client = "RedisClusterClient"
    /\ trace.options.useTLS = <<TRUE>>
    /\ trace.options.credentials # <<>>
    /\ ConnectionSent.clusterModeEnabled

\* a Java cluster client has sent its request
C18_JavaWitness ==
    /\ Connected
    /\ trace.client = "ConnectionManager"
    /\ trace.options.class = "RedisClusterClientConfiguration"
    /\ ConnectionSent.clusterModeEnabled

\* C19: a request built from a cluster configuration carries no database id
\* and no retry strategy; one built from a standalone configuration carries
\* the database id and the retry strategy that are configured, unchanged,
\* and none that is not
C19_StandaloneOnlyOptions ==
    Connected =>
        LET o == trace.options
            m == ConnectionSent
        IN /\ trace.client = "RedisClusterClient" =>
                 DOMAIN m \cap {"databaseId", "connectionRetryStrategy"} = {}
           /\ trace.client = "ConnectionManager" =>
                 IF o.class = "RedisClusterClientConfiguration"
                 THEN /\ m.databaseId = 0
                      /\ m.connectionRetryStrategy = <<>>
                 ELSE /\ m.databaseId = (IF o.databaseId = <<>> THEN 0
                                         ELSE o.databaseId[1])
                      /\ (m.connectionRetryStrategy = <<>>)
                            = (o.reconnectStrategy = <<>>)
                      /\ o.reconnectStrategy # <<>> =>
                            LET s == m.connectionRetryStrategy[1]
                                g == o.reconnectStrategy[1]
                            IN /\ s.numberOfRetries = g.numOfRetries
                               /\ s.factor = g.factor
                               /\ s.exponentBase = g.exponentBase

\* a Java standalone client with database 1 and a retry strategy has sent
\* its request
C19_Witness ==
    /\ Connected
    /\ trace.client = "ConnectionManager"
    /\ trace.options.class = "RedisClientConfiguration"
    /\ trace.options.databaseId = <<1>>
    /\ trace.options.reconnectStrategy # <<>>
    /\ ConnectionSent.databaseId = 1


(***************************************************************************)
(* The client against a core that may also send bytes that are no          *)
(* Response: every way of closing the client happens here (close(), a      *)
(* socket error, a closing error, a frame that does not decode).           *)
(***************************************************************************)
\* a frame of one byte, the key of field 6 with wire type 6, which
\* Reader.skipType rejects with an Error that is no RangeError
GarbledFrame == <<1, 54>>

\* the core puts a frame on the socket that is no Response
CoreGarbles ==
    /\ ~Constructed
    /\ Readable
    /\ core.strays < MaxStrayFrames
    /\ wire' = wire \o GarbledFrame
    /\ core' = [core EXCEPT !.strays = @ + 1]
    /\ UNCHANGED <<benchmark, promiseCallbackFunctions, availableCallbackSlots,
                   requestWriter, writeInProgress, remainingReadData, isClosed,
                   socket, promises, callbackIndexOf, nextRequest, thrown,
                   uncaught, orphaned, trace>>

\* a core that answers with a value or with a closing error
CoreRespondOrClose ==
    CoreAnswers({Payload("pointer", Unspecified, FALSE),
                 Payload("closingError", Unspecified, FALSE)})

NextClosing ==
    \/ ConnectToServer
    \/ Submit
    \/ WriteComplete
    \/ CoreRespondOrClose
    \/ CoreGarbles
    \/ DataEvent
    \/ Close
    \/ SocketError

SpecClosing == Init /\ [][NextClosing]_vars

\* the requests the client holds in its buffer or has handed to the socket
Accepted == {Emitted[i].request : i \in 1..Len(Emitted)}

\* C20: a closed client stays closed, and it takes no request: no promise
\* is created or made pending, no callback registered, no request buffered
\* or written
C20_ClosedIsTerminal ==
    [][isClosed =>
          /\ isClosed'
          /\ nextRequest' = nextRequest
          /\ Accepted' \subseteq Accepted
          /\ promiseCallbackFunctions' = promiseCallbackFunctions
          /\ \A p \in PromiseIds :
                promises'[p] = Pending => promises[p] = Pending]_vars

\* closed by a frame that did not decode, and a request refused afterwards
C20_Witness ==
    /\ isClosed /\ thrown
    /\ \E r \in Requests : promises[r] = Rejected("ClosingError", DecodeFailedMsg)

\* closed by a closing error of the core, and a request refused afterwards
C20_ClosingErrorWitness ==
    /\ isClosed /\ thrown
    /\ \E r \in Requests : promises[r] = Rejected("ClosingError", MessageOf(r, FALSE))

\* closed by a socket error, and a request refused afterwards
C20_SocketErrorWitness ==
    /\ isClosed /\ thrown
    /\ socket.destroyed

\* closed by close(message), and a request refused afterwards
C20_CloseWitness ==
    /\ isClosed /\ thrown
    /\ \E r \in Requests : promises[r] = Rejected("ClosingError", UserCloseMsg)


(***************************************************************************)
(* The read_from field on the wire (connection_request.proto, field 5):    *)
(* the Node encoder writes the field when the object has it, the Java      *)
(* encoder when its value is not 0, and the core reads 0 when it is        *)
(* missing.                                                                *)
(***************************************************************************)
\* protobufjs ConnectionRequest.encode: the field is written if present
EncodeReadFrom(m) ==
    IF m.readFrom = <<>> THEN <<>> ELSE <<40>> \o Varint(m.readFrom[1])

\* protobuf-java writeTo: the field is written if it is not the default
WriteReadFromTo(m) ==
    IF m.readFrom = ReadFromPrimary THEN <<>> ELSE <<40>> \o Varint(m.readFrom)

\* what the core decodes: the value after the key, or the default
DecodeReadFrom(bytes) ==
    IF bytes = <<>> THEN ReadFromPrimary ELSE ReadUint32(bytes, 1).val

\* the read-from strategy the core is asked for
ReadFromAsked ==
    DecodeReadFrom(IF trace.client = "ConnectionManager"
                   THEN WriteReadFromTo(ConnectionSent)
                   ELSE EncodeReadFrom(ConnectionSent))

\* C21: without a configured readFrom the request asks for Primary; the Java
\* client asks for PreferReplica for PREFER_REPLICA only, the Node client
\* asks for what is configured
C21_ReadFromDefaultsToPrimary ==
    Connected =>
        LET o == trace.options
        IN IF trace.client = "ConnectionManager"
           THEN /\ (ReadFromAsked = ReadFromPreferReplica)
                      = (o.readFrom = "PREFER_REPLICA")
                /\ o.readFrom # "PREFER_REPLICA" => ReadFromAsked = ReadFromPrimary
           ELSE /\ o.readFrom = <<>> =>
                      /\ ConnectionSent.readFrom = <<>>
                      /\ ReadFromAsked = ReadFromPrimary
                /\ o.readFrom = <<"primary">> => ReadFromAsked = ReadFromPrimary
                /\ o.readFrom = <<"preferReplica">>
                      => ReadFromAsked = ReadFromPreferReplica

\* a Java client without a readFrom has sent its request
C21_Witness ==
    /\ Connected
    /\ trace.client = "ConnectionManager"
    /\ trace.options.readFrom = "null"
    /\ ReadFromAsked = ReadFromPrimary

\* a Node client without a readFrom has sent its request
C21_NodeWitness ==
    /\ Connected
    /\ trace.client = "BaseClient"
    /\ trace.options.readFrom = <<>>
    /\ ReadFromAsked = ReadFromPrimary


(***************************************************************************)
(* Addresses.  getAddress is the benchmark's; the client hands the         *)
(* addresses of its configuration to the core as they are, and the core    *)
(* connects to port 6379 when the address it reads has no port.            *)
(***************************************************************************)
RECURSIVE Decimal(_)
\* the decimal digits of n, as a template literal prints a number
Decimal(n) ==
    IF n < 10 THEN <<48 + n>> ELSE Decimal(n \div 10) \o <<48 + (n % 10)>>

\* mutant: the port is printed as it is given ("undefined" when absent)
getAddress_NoDefault(host, port) ==
    host \o <<58>> \o (IF port = <<>> THEN <<117>> ELSE Decimal(port[1]))

\* getAddress(host, port?): `${host}:${port === undefined ? PORT : port}`
getAddress(host, port) ==
    host \o <<58>> \o Decimal(IF port = <<>> THEN PORT ELSE port[1])

\* protobufjs NodeAddress.encode: host = 1, port = 2, each if present
EncodeNodeAddress(a) ==
    <<10>> \o Varint(Len(a.host)) \o a.host
    \o (IF a.port = <<>> THEN <<>> ELSE <<16>> \o Varint(a.port[1]))

\* the address the core connects to for the NodeAddress it reads: a missing
\* port reads as 0, for which the core takes the default port
CoreConnectsTo(bytes) ==
    LET host == ReadString(bytes, 1)
        port == IF host.pos >= Len(bytes) THEN 0
                ELSE ReadUint32(bytes, host.pos + 1).val
    IN [host |-> host.val, port |-> IF port = 0 THEN PORT ELSE port]

\* C22: the address used for a host given without a port is the address
\* used for that host with port 6379, in getAddress and in what the core
\* connects to for the client's connection request
C22_AbsentPortIs6379 ==
    (Connected /\ trace.client # "ConnectionManager") =>
        \A i \in 1..Len(trace.options.addresses) :
            LET a == trace.options.addresses[i]
                sent == ConnectionSent.addresses[i]
            IN /\ getAddress(a.host, <<>>) = getAddress(a.host, <<PORT>>)
               /\ CoreConnectsTo(EncodeNodeAddress(sent))
                     = CoreConnectsTo(EncodeNodeAddress(
                           [sent EXCEPT !.port =
                               IF a.port = <<>> THEN <<PORT>> ELSE a.port]))
               /\ CoreConnectsTo(EncodeNodeAddress(sent)).host = a.host
               /\ a.port # <<>> =>
                     CoreConnectsTo(EncodeNodeAddress(sent)).port = a.port[1]

\* a client configured with an address without a port has sent its request
C22_Witness ==
    /\ Connected
    /\ trace.client = "BaseClient"
    /\ trace.options.addresses[1].port = <<>>
    /\ ConnectionSent.addresses[1].port = <<>>
    /\ CoreConnectsTo(EncodeNodeAddress(ConnectionSent.addresses[1])).port = PORT


\* the pending requests that hold callback index i
Holders(i) == {r \in PromiseIds : IsPending(r) /\ callbackIndexOf[r] = i}

\* the places of callback index i in the free-slot stack
FreePlaces(i) ==
    {k \in 1..Len(availableCallbackSlots) : availableCallbackSlots[k] = i}

\* every index of the table is held by one pending request or is once in
\* the free-slot stack, and all of them are in the stack when nothing is
\* pending
SlabConsistent ==
    /\ \A i \in 0..(Len(promiseCallbackFunctions) - 1) :
          \/ Cardinality(Holders(i)) = 1 /\ FreePlaces(i) = {}
          \/ Holders(i) = {} /\ Cardinality(FreePlaces(i)) = 1
    /\ \A k \in 1..Len(availableCallbackSlots) :
          availableCallbackSlots[k] < Len(promiseCallbackFunctions)
    /\ (\A r \in PromiseIds : ~IsPending(r)) =>
          Range(availableCallbackSlots) = 0..(Len(promiseCallbackFunctions) - 1)

MaxServed == 3

InitSlab ==
    /\ \E n \in 1..MaxServed, order \in Orders(MaxServed) :
         /\ \A i \in 1..MaxServed : (i > n) = (order[i] > n)
         /\ benchmark = NoBenchmark
         /\ promiseCallbackFunctions = [i \in 1..n |-> 0]
         /\ availableCallbackSlots = [i \in 1..n |-> order[i] - 1]
    /\ requestWriter = <<>>
    /\ writeInProgress = FALSE
    /\ remainingReadData = <<>>
    /\ isClosed = FALSE
    /\ socket = [NewSocket EXCEPT !.writes =
                    <<[requests |-> <<[callbackIdx |-> 0, request |-> 0]>>,
                       refused |-> FALSE]>>]
    /\ promises = [p \in PromiseIds |->
                      IF p = 0 THEN Resolved("value", <<PointerOf(0)>>)
                      ELSE NoPromise]
    /\ callbackIndexOf = [p \in PromiseIds |-> IF p = 0 THEN 0 ELSE -1]
    /\ nextRequest = 1
    /\ thrown = FALSE
    /\ uncaught = FALSE
    /\ orphaned = FALSE
    /\ wire = <<>>
    /\ core = [answered |-> {0}, strays |-> 0]
    /\ trace = [on |-> FALSE, sent |-> <<>>, dispatched |-> <<>>]

NextSlab ==
    \/ Submit
    \/ WriteComplete
    \/ CoreRespondValue
    \/ DataEvent

SpecSlab == InitSlab /\ [][NextSlab]_vars

\* C24: a new request takes the top of the free-slot stack, and the table
\* length only when the stack is empty; and when the table grows, every one
\* of its indices is held by a pending request
C24_FreshIndexOnlyWhenStackEmpty ==
    [][/\ nextRequest' = nextRequest + 1 =>
             /\ callbackIndexOf'[nextRequest] =
                    IF availableCallbackSlots = <<>>
                    THEN Len(promiseCallbackFunctions)
                    ELSE availableCallbackSlots[Len(availableCallbackSlots)]
             /\ availableCallbackSlots # <<>> =>
                    /\ Len(promiseCallbackFunctions') = Len(promiseCallbackFunctions)
                    /\ availableCallbackSlots' =
                           SubSeq(availableCallbackSlots, 1,
                                  Len(availableCallbackSlots) - 1)
       /\ Len(promiseCallbackFunctions') > Len(promiseCallbackFunctions) =>
             /\ availableCallbackSlots = <<>>
             /\ Cardinality({p \in PromiseIds : promises'[p] = Pending})
                    = Len(promiseCallbackFunctions')]_vars

\* a request took index 0, the most recently freed, while index 1, freed
\* before it, stays in the stack
C24_Witness ==
    /\ availableCallbackSlots = <<1>>
    /\ Len(promiseCallbackFunctions) = 2
    /\ IsPending(1) /\ callbackIndexOf[1] = 0
    /\ nextRequest = 2

\* the table grew by a fresh index while all others were held
C24_GrowthWitness ==
    /\ Len(promiseCallbackFunctions) = 2
    /\ availableCallbackSlots = <<>>
    /\ IsPending(1) /\ IsPending(2)
    /\ callbackIndexOf[1] = 0 /\ callbackIndexOf[2] = 1


\* the client with a socket that completes every write it was given: the
\* completion callback of an outstanding write is eventually invoked
SpecWrites == Init /\ [][Next]_vars /\ WF_vars(WriteComplete)

Buffered(r) == \E i \in 1..Len(requestWriter) : requestWriter[i].request = r
Handed(r) == \E i \in 1..Len(Written) : Written[i].request = r

\* C25: a request that is in the write buffer is eventually passed to
\* socket.write
C25_BufferedIsEventuallyWritten ==
    \A r \in PromiseIds : Buffered(r) ~> Handed(r)

\* both requests waited in the buffer during the write of the connection
\* request and went out together when it completed
C25_Witness ==
    /\ Len(socket.writes) = 2
    /\ Len(socket.writes[2].requests) = 2
    /\ Handed(1) /\ Handed(2)
    /\ requestWriter = <<>>
    /\ socket.outstanding = 0


\* how a frame that is no closing error settles its request
SettlementOf(m) ==
    IF m.requestError # <<>>
    THEN Rejected(ClassOfKind(m.requestError[1].type), m.requestError[1].message)
    ELSE IF m.respPointer # <<>> THEN Resolved("value", m.respPointer)
    ELSE IF m.constantResponse # <<>> THEN Resolved("OK", <<>>)
    ELSE Resolved("null", <<>>)

\* C26: a decoded frame that is no closing error settles its pending
\* request in the one way its payload names (request error: rejected; value
\* pointer: the value; constant OK: "OK"; none of these: null), and a
\* request that is settled is not settled again
C26_FrameSettlesInOneWay ==
    [][/\ \A i \in (Len(trace.dispatched) + 1)..Len(trace.dispatched') :
             LET m == trace.dispatched'[i]
                 r == m.callbackIdx + 1
             IN (m.closingError = <<>> /\ r \in Requests /\ IsPending(r)) =>
                    promises'[r] = SettlementOf(m)
       /\ \A p \in PromiseIds : IsSettled(p) => promises'[p] = promises[p]]_vars

\* one request was resolved with "OK" and the other with null
C26_Witness ==
    /\ promises[1] = Resolved("OK", <<>>)
    /\ promises[2] = Resolved("null", <<>>)
    /\ Len(trace.dispatched) = 2


(***************************************************************************)
(* The Java client's connection attempt: the future of connectToRedis is   *)
(* promise 0, the channel is the socket, and the response to the           *)
(* connection request is checked by checkGlideRsResponse.                  *)
(***************************************************************************)
\* mutant: a value pointer passes the check
checkGlideRsResponse_DataAccepted(response) ==
    IF response.requestError # <<>>
    THEN <<<<82>> \o response.requestError[1].message>>
    ELSE IF response.closingError # <<>> THEN <<response.closingError[1]>>
    ELSE IF response.respPointer = <<>> /\ response.constantResponse = <<>>
    THEN <<<<69>>>>
    ELSE <<>>

\* checkGlideRsResponse(response): the message of the ClosingException it
\* throws, or none.  The messages are "Unexpected request error in
\* response: " + message (82 for the prefix), the closing error itself,
\* "Unexpected data in response" (68), "Unexpected empty data in response" (69)
checkGlideRsResponse(response) ==
    IF response.requestError # <<>>
    THEN <<<<82>> \o response.requestError[1].message>>
    ELSE IF response.closingError # <<>> THEN <<response.closingError[1]>>
    ELSE IF response.respPointer # <<>> THEN <<<<68>>>>
    ELSE IF response.constantResponse = <<>> THEN <<<<69>>>>
    ELSE <<>>

\* closeConnection(): channel.close().syncUninterruptibly()
closeConnection(c) == [c EXCEPT !.socket = SocketEnd(c.socket)]

InitJava == InitConfig /\ trace.client = "ConnectionManager"

\* the core answers the connection request
CoreAnswersConnection ==
    /\ Connecting
    /\ wire = <<>>
    /\ CoreAnswers(CodecPayloads)

\* thenApplyAsync(this::checkGlideRsResponse), up to the return or, in
\* throwClosingError, up to the end of closeConnection().get()
CheckResponse ==
    /\ Connecting
    /\ wire # <<>>
    /\ ~socket.ended
    /\ LET response == decodeDelimited(wire, 0).val
       IN IF checkGlideRsResponse(response) = <<>>
          THEN /\ Install([Client EXCEPT !.promises =
                              Settle(promises, 0, Resolved("null", <<>>))])
               /\ wire' = <<>>
          ELSE /\ Install(closeConnection(Client))
               /\ wire' = wire
    /\ UNCHANGED <<nextRequest, thrown, core>>

\* throwClosingError after the channel was closed: throw new ClosingException(msg)
ThrowClosingException ==
    /\ Connecting
    /\ wire # <<>>
    /\ socket.ended
    /\ LET msg == checkGlideRsResponse(decodeDelimited(wire, 0).val)
       IN Install([Client EXCEPT !.promises =
                      Settle(promises, 0, Rejected("ClosingException", msg[1]))])
    /\ wire' = <<>>
    /\ UNCHANGED <<nextRequest, thrown, core>>

NextJava ==
    \/ JavaConnect
    \/ WriteComplete
    \/ CoreAnswersConnection
    \/ CheckResponse
    \/ ThrowClosingException

SpecJava == InitJava /\ [][NextJava]_vars

C27_OkWitness ==
    /\ trace.client = "ConnectionManager"
    /\ Ready
    /\ ~socket.ended


RECURSIVE ReadStops(_, _)
\* why the read of buf from pos on stops: at the end of the buffer, at a
\* partial frame, at a closing error or at a frame that does not decode
ReadStops(buf, pos) ==
    IF pos >= Len(buf) THEN "end"
    ELSE LET d == decodeDelimited(buf, pos)
         IN IF d.err = "range" THEN "partial"
            ELSE IF d.err # "none" THEN "failed"
            ELSE IF d.val.closingError # <<>> THEN "closing"
            ELSE ReadStops(buf, d.pos)

\* C28: when an open client reads a frame that does not decode, it is
\* closed and its socket ended; a request that was pending is rejected with
\* a ClosingError that reports the failure, unless a frame before the
\* undecodable one settled it; nothing stays pending, so no frame after it
\* settles a request
C28_DecodeFailureCloses ==
    [][LET taken == SubSeq(wire, 1, Len(wire) - Len(wire'))
           buf == remainingReadData \o taken
           before == FramesIn(buf, 0)
       IN (~isClosed /\ Len(wire') < Len(wire) /\ ReadStops(buf, 0) = "failed") =>
             /\ isClosed'
             /\ socket'.ended
             /\ \A p \in PromiseIds :
                   IsPending(p) =>
                       \/ promises'[p] = Rejected("ClosingError", DecodeFailedMsg)
                       \/ \E i \in 1..Len(before) :
                             /\ before[i].callbackIdx = callbackIndexOf[p]
                             /\ promises'[p] = SettlementOf(before[i])
             /\ \A p \in PromiseIds : ~IsPending(p) => promises'[p] = promises[p]]_vars

\* request 1 got its value from the frame before the undecodable one;
\* request 2 was rejected for the decode failure although the core had
\* answered it, and all bytes are read
C28_Witness ==
    /\ isClosed /\ socket.ended
    /\ promises[1] = Resolved("value", <<PointerOf(1)>>)
    /\ promises[2] = Rejected("ClosingError", DecodeFailedMsg)
    /\ 2 \in core.answered
    /\ wire = <<>>


\* C29: the connection request is the first request written and holds
\* callback index 0; while it is pending there is no user request; its
\* promise is resolved only by reading a frame with callback index 0
C29_ConnectedBeforeReturned ==
    /\ [](/\ Written # <<>> =>
               /\ Written[1].request = 0
               /\ Written[1].callbackIdx = 0
               /\ \A i \in 2..Len(Written) : Written[i].request # 0
          /\ ~Constructed => callbackIndexOf[0] = 0
          /\ \A r \in Requests :
                promises[r].state # "none" => (Handed(0) /\ ~Connecting)
          /\ Connecting =>
                /\ nextRequest = 1
                /\ \A r \in Requests : callbackIndexOf[r] # 0)
    /\ [][(Connecting /\ Ready') =>
             LET read == FramesRead(SubSeq(wire, 1, Len(wire) - Len(wire')))
             IN \E j \in 1..Len(read) :
                    /\ read[j].callbackIdx = 0
                    /\ read[j].requestError = <<>>
                    /\ read[j].closingError = <<>>]_vars

\* the returned client wrote a user request after the connection request,
\* under index 0, which the connection request had given back
C29_Witness ==
    /\ Ready
    /\ Len(Written) = 2
    /\ Written[1].request = 0 /\ Written[2].request = 1
    /\ callbackIndexOf[1] = 0
    /\ IsPending(1)


\* the client on an event loop that delivers what is due: the completion
\* callback of every write and the "data" event for bytes that arrived
SpecDelivering ==
    Init /\ [][Next]_vars /\ WF_vars(WriteComplete) /\ WF_vars(DataEvent)

\* the connection is gone: the client was closed, or the socket failed, or
\* the peer ended it
ConnectionGone == isClosed \/ socket.destroyed \/ socket.peerEnded

\* C30: a request that is pending when the connection is gone is
\* eventually settled
C30_SettledOnceConnectionGone ==
    \A r \in PromiseIds : (IsPending(r) /\ ConnectionGone) ~> ~IsPending(r)


(***************************************************************************)
(* C31..C32: the write buffer between two events.                          *)
(***************************************************************************)
\* C31: while no socket write is in progress the write buffer is empty, and
\* every request that was accepted has been passed to a socket write
C31_IdleMeansFlushed ==
    ~writeInProgress =>
        /\ requestWriter = <<>>
        /\ \A r \in PromiseIds : promises[r].state # "none" => Handed(r)

\* two writes were made, the second from the completion callback of the
\* first, and the callback of the second found the buffer empty
C31_Witness ==
    /\ ~writeInProgress
    /\ Len(socket.writes) = 2
    /\ socket.outstanding = 0
    /\ Len(socket.writes[2].requests) >= 1
    /\ nextRequest > 1


\* C32: once the client is closed no further call of socket.write is made
C32_NoWriteAfterClose ==
    [][isClosed => socket.writes' = socket.writes]_vars


(***************************************************************************)
(* C33: a connection request that is answered with an error.               *)
(***************************************************************************)
\* promise 0 was rejected by a frame of the core: a request error gives one
\* of the request error classes, a closing error the ClosingError that
\* carries the core's message
RejectedByAnswer ==
    /\ Failed
    /\ \/ promises[0].kind # "ClosingError"
       \/ \E long \in BOOLEAN : promises[0].data = MessageOf(0, long)

\* C33: when the connection request was answered with an error the socket
\* is ended and the client is closed
C33_FailedCreationClosesSocket ==
    RejectedByAnswer => (isClosed /\ socket.ended)


(***************************************************************************)
(* C34: one connection response, given to the Node client and to the Java  *)
(* client.                                                                 *)
(***************************************************************************)
\* a client as its constructor leaves it
NewClient ==
    [promiseCallbackFunctions |-> <<>>,
     availableCallbackSlots |-> <<>>,
     requestWriter |-> <<>>,
     writeInProgress |-> FALSE,
     remainingReadData |-> <<>>,
     isClosed |-> FALSE,
     socket |-> NewSocket,
     promises |-> [p \in PromiseIds |-> NoPromise],
     callbackIndexOf |-> [p \in PromiseIds |-> -1],
     uncaught |-> FALSE,
     orphaned |-> FALSE,
     dispatched |-> <<>>]

\* the Node client after connectToServer and the "data" event with the frame
NodeAttempt(frame) ==
    LET c == handleReadData(connectToServer(NewClient), frame)
    IN [succeeds |-> c.promises[0].state = "resolved",
        closed |-> c.isClosed /\ c.socket.ended]

\* the Java client after checkGlideRsResponse was applied to the frame
JavaAttempt(frame) ==
    LET failure == checkGlideRsResponse(decodeDelimited(frame, 0).val)
    IN [succeeds |-> failure = <<>>,
        closed |-> failure # <<>> /\ closeConnection(NewClient).socket.ended]

\* the Node clients, with and without TLS, for every address and readFrom
\* setting
InitAttempt ==
    /\ InitConfig
    /\ trace.client # "ConnectionManager"
    /\ trace.options.credentials = <<>>
    /\ trace.options.requestTimeout = <<>>

\* a Node client from its creation to the answer to its connection request
NextAttempt ==
    \/ NodeConnect
    \/ WriteComplete
    \/ CoreAnswersConnection
    \/ DataEvent

SpecAttempt == InitAttempt /\ [][NextAttempt]_vars

\* C34: in the step in which the Node client settles its connection
\* attempt it ends as NodeAttempt says, and for the frame that settled it
\* the Node client succeeds exactly when the Java client does, and a
\* wrapper in which the attempt failed has closed its connection
C34_WrappersAgreeOnConnection ==
    [][(Connecting /\ ~Connecting') =>
          LET frame == remainingReadData \o wire
              node == NodeAttempt(frame)
              java == JavaAttempt(frame)
          IN /\ Ready' <=> node.succeeds
             /\ (isClosed' /\ socket'.ended) <=> node.closed
             /\ node.succeeds <=> java.succeeds
             /\ ~node.succeeds => node.closed
             /\ ~java.succeeds => java.closed]_vars


(***************************************************************************)
(* C35: close() on a closed client.                                        *)
(***************************************************************************)
\* C35: on a closed client a call of close(), with any message, leaves the
\* outcome of every request, the closed flag and the socket as they are,
\* and so does every step taken after the client was closed: a close() by
\* the caller, a socket error, a frame with a closing error
C35_CloseIsIdempotent ==
    /\ [](isClosed =>
            \A errorMessage \in {<<>>, UserCloseMsg, DecodeFailedMsg} :
                LET c == close(Client, errorMessage)
                IN /\ c.promises = promises
                   /\ c.isClosed
                   /\ c.socket = socket
                   /\ socket.ended)
    /\ [][isClosed => /\ isClosed'
                      /\ socket'.ended
                      /\ promises' = promises]_vars

\* the caller closed the client with a message while a request was pending,
\* and the socket failed afterwards, so that the "error" handler called
\* close() on the closed client
C35_Witness ==
    /\ isClosed
    /\ socket.destroyed
    /\ \E r \in Requests : promises[r] = Rejected("ClosingError", UserCloseMsg)


(***************************************************************************)
(* C36: what handleReadData keeps for the next "data" event.               *)
(***************************************************************************)
RECURSIVE DispatchedEnd(_, _)
\* the position in buf behind the last frame the read loop acts on: it stops
\* at the end, at a frame that does not decode, and behind a closing error
DispatchedEnd(buf, pos) ==
    IF pos >= Len(buf) THEN pos
    ELSE LET d == decodeDelimited(buf, pos)
         IN IF d.err # "none" THEN pos
            ELSE IF d.val.closingError # <<>> THEN d.pos
            ELSE DispatchedEnd(buf, d.pos)

\* the bytes kept are none, or the bytes of buf behind the last frame acted
\* on, which are the beginning of one frame and not a whole frame
Leftover(buf, kept) ==
    \/ kept = <<>>
    \/ /\ kept = SubSeq(buf, DispatchedEnd(buf, 0) + 1, Len(buf))
       /\ decodeDelimited(kept, 0).err = "range"

\* the buffer a "data" event works on: the bytes kept, then the bytes taken
\* from the socket in this step
BufferRead == remainingReadData \o SubSeq(wire, 1, Len(wire) - Len(wire'))

\* C36 as stated: after every "data" event whose handler returned, the bytes
\* kept are none or the beginning of one frame that follows every frame
\* acted on
C36_LeftoverIsPartialFrame ==
    [][(wire' # wire /\ ~uncaught') =>
          Leftover(BufferRead, remainingReadData')]_vars

\* C36, amended: the same for every "data" event that leaves the client open
C36_LeftoverIsPartialFrameWhileOpen ==
    [][(wire' # wire /\ ~uncaught' /\ ~isClosed') =>
          Leftover(BufferRead, remainingReadData')]_vars

\* a frame was acted on and the beginning of the next frame is kept
C36_Witness ==
    /\ ~isClosed
    /\ Len(trace.dispatched) >= 1
    /\ remainingReadData # <<>>
    /\ Len(remainingReadData) >= 2


(***************************************************************************)
(* node_benchmark.ts.  An async function runs without interruption from    *)
(* one await to the next, so a task of redis_benchmark takes its steps     *)
(* whole: from its start, or from the completion of the command it awaits, *)
(* to the next await or to its return.                                     *)
(***************************************************************************)
MaxTotalCommands == 3
MaxConcurrentTasks == 3
MaxClients == 2
MaxDataSize == 1

ChosenAction == {"GET_NON_EXISTING", "GET_EXISTING", "SET"}

\* generate_value(size): "0".repeat(size)
generate_value(size) == [i \in 1..size |-> 48]

\* a call of a method of IAsyncClient; a key is named by its generator
Call(client, method, args) == [client |-> client, method |-> method, args |-> args]
NoCall == Call(0, "", <<>>)

\* the switch of redis_benchmark, on clients[started_tasks_counter % clients.length]
IssueCommand(b, chosen_action) ==
    LET client == b.started_tasks_counter % b.clients
    IN CASE chosen_action = "GET_EXISTING" ->
                Call(client, "get", <<"generate_key_get">>)
         [] chosen_action = "GET_NON_EXISTING" ->
                Call(client, "get", <<"generate_key_get">>)
         [] chosen_action = "SET" ->
                Call(client, "get", <<"generate_key_get">>)

\* the end of the loop body: the latency of the awaited command is pushed on
\* the list of the chosen action
PushLatency(b, i) ==
    LET task == b.running_tasks[i]
    IN [b EXCEPT !.action_latencies[task.chosen_action] = Append(@, task.awaited)]

\* mutant: the counter is incremented after the await
redis_benchmark_CountsAfterAwait(b, i, chosen_action) ==
    LET b1 == IF i > Len(b.running_tasks)
              THEN [b EXCEPT !.running_tasks = Append(@, [pc |-> "returned", chosen_action |-> "", awaited |-> NoCall])]
              ELSE [PushLatency(b, i) EXCEPT !.started_tasks_counter = @ + 1]
    IN IF b1.started_tasks_counter < b1.total_commands
       THEN [b1 EXCEPT !.running_tasks[i] =
                          [pc |-> "await", chosen_action |-> chosen_action,
                           awaited |-> IssueCommand(b1, chosen_action)]]
       ELSE [b1 EXCEPT !.running_tasks[i] =
                          [pc |-> "returned", chosen_action |-> "", awaited |-> NoCall]]

\* redis_benchmark as task i: called (the task is not in running_tasks yet)
\* or resumed after its await, it runs to the next await or returns;
\* chosen_action is what choose_action() returns if the loop is entered
redis_benchmark(b, i, chosen_action) ==
    LET b1 == IF i > Len(b.running_tasks)
              THEN [b EXCEPT !.running_tasks = Append(@, [pc |-> "returned", chosen_action |-> "", awaited |-> NoCall])]
              ELSE PushLatency(b, i)
    IN IF b1.started_tasks_counter < b1.total_commands
       THEN LET b2 == [b1 EXCEPT !.started_tasks_counter = @ + 1]
            IN [b2 EXCEPT !.running_tasks[i] =
                              [pc |-> "await", chosen_action |-> chosen_action,
                               awaited |-> IssueCommand(b2, chosen_action)]]
       ELSE [b1 EXCEPT !.running_tasks[i] =
                          [pc |-> "returned", chosen_action |-> "", awaited |-> NoCall]]

RECURSIVE PushTasks(_, _, _)
\* the for loop of create_bench_tasks: running_tasks.push(redis_benchmark(...))
PushTasks(b, i, actions) ==
    IF i > b.num_of_concurrent_tasks THEN b
    ELSE PushTasks(redis_benchmark(b, i, actions[i]), i + 1, actions)

\* create_bench_tasks up to its await of Promise.all(running_tasks)
create_bench_tasks(b, actions) ==
    PushTasks([b EXCEPT !.started_tasks_counter = 0], 1, actions)

clientVars ==
    <<promiseCallbackFunctions, availableCallbackSlots, requestWriter,
      writeInProgress, remainingReadData, isClosed, socket, promises,
      callbackIndexOf, nextRequest, thrown, uncaught, orphaned, wire, core, trace>>

\* run_clients at its call of create_bench_tasks, for each choice of the
\* arguments; the clients are those of the IAsyncClient interface
InitBenchmark ==
    /\ promiseCallbackFunctions = <<>>
    /\ availableCallbackSlots = <<>>
    /\ requestWriter = <<>>
    /\ writeInProgress = FALSE
    /\ remainingReadData = <<>>
    /\ isClosed = FALSE
    /\ socket = NewSocket
    /\ promises = [p \in PromiseIds |-> NoPromise]
    /\ callbackIndexOf = [p \in PromiseIds |-> -1]
    /\ nextRequest = 1
    /\ thrown = FALSE
    /\ uncaught = FALSE
    /\ orphaned = FALSE
    /\ wire = <<>>
    /\ core = [answered |-> {}, strays |-> 0]
    /\ trace = [on |-> FALSE, sent |-> <<>>, dispatched |-> <<>>]
    /\ \E total \in 0..MaxTotalCommands, tasks \in 1..MaxConcurrentTasks,
          count \in 1..MaxClients, size \in 0..MaxDataSize :
         benchmark = [NoBenchmark EXCEPT
                         !.action_latencies = [a \in ChosenAction |-> <<>>],
                         !.clients = count,
                         !.total_commands = total,
                         !.num_of_concurrent_tasks = tasks,
                         !.data = generate_value(size)]

\* run_clients calls create_bench_tasks
CreateBenchTasks ==
    /\ benchmark.running_tasks = <<>>
    /\ \E actions \in [1..benchmark.num_of_concurrent_tasks -> ChosenAction] :
         benchmark' = create_bench_tasks(benchmark, actions)
    /\ UNCHANGED clientVars

\* the command a task awaits completes and the task runs on
CommandCompletes ==
    /\ \E i \in 1..Len(benchmark.running_tasks), chosen_action \in ChosenAction :
         /\ benchmark.running_tasks[i].pc = "await"
         /\ benchmark' = redis_benchmark(benchmark, i, chosen_action)
    /\ UNCHANGED clientVars

NextBenchmark ==
    \/ CreateBenchTasks
    \/ CommandCompletes

SpecBenchmark == InitBenchmark /\ [][NextBenchmark]_vars

\* every command a task awaits completes
SpecBenchmarkFair == SpecBenchmark /\ WF_vars(CommandCompletes)

Awaiting == {i \in 1..Len(benchmark.running_tasks) : benchmark.running_tasks[i].pc = "await"}

RECURSIVE Measured(_)
\* the number of latencies recorded for the actions in the given set
Measured(actions) ==
    IF actions = {} THEN 0
    ELSE LET a == CHOOSE x \in actions : TRUE
         IN Len(benchmark.action_latencies[a]) + Measured(actions \ {a})

\* the commands started: those awaited now and those measured
Started == Cardinality(Awaiting) + Measured(ChosenAction)

AllReturned ==
    /\ benchmark.running_tasks # <<>>
    /\ Awaiting = {}

Names(chosen_action, call) ==
    IF chosen_action = "SET"
    THEN call.method = "set" /\ Len(call.args) = 2 /\ call.args[2] = benchmark.data
    ELSE call.method = "get"

\* C38: the command a task awaits is the one its chosen action names, and
\* so is every command whose latency is recorded under an action
C38_ActionIssuesItsCommand ==
    /\ \A i \in Awaiting :
         Names(benchmark.running_tasks[i].chosen_action,
               benchmark.running_tasks[i].awaited)
    /\ \A a \in ChosenAction :
         \A j \in 1..Len(benchmark.action_latencies[a]) :
             Names(a, benchmark.action_latencies[a][j])

====
